---- MODULE Spec2Model ----
(***************************************************************************)
(* Particle simulation core of 3d-waves: the hybrid particle system, its   *)
(* three backends (single-threaded, shared-memory workers, GPU compute),   *)
(* the per-particle state machine and the animation driver.                *)
(*                                                                         *)
(* Numbers are fixed point: 1000 stands for 1.0 (positions, velocities,    *)
(* sizes, times, random draws, normals).  Products are rounded to the      *)
(* nearest unit, as float arithmetic rounds.                               *)
(***************************************************************************)
EXTENDS Integers, Sequences, FiniteSets, TLC

(***************************************************************************)
(* Bounds of the model.                                                    *)
(***************************************************************************)
MaxParticles == 2
MaxSpawn == 3
WorkerCount == 2
MaxQueue == 1

(***************************************************************************)
(* Particle states (gpu-particles.js, physics-worker.js, gpu-compute.js).  *)
(***************************************************************************)
FALLING == 0
STUCK == 1
SLIDING == 2
DRIPPING == 3
INACTIVE == 4
BOUNCING == 5

(***************************************************************************)
(* Configuration (config.js), in fixed point.                              *)
(***************************************************************************)
SPLASH_UPWARD_BIAS == 3000
BOUNCE_CHANCE == 400
BOUNCE_RESTITUTION_MIN == 150
BOUNCE_RESTITUTION_MAX == 500
BOUNCE_SCATTER == 5000
BOUNCE_SCATTER_VERTICAL == 7000
BOUNCE_DRAG == 930
IMPACT_SPRAY_FACTOR == 150
STICK_DURATION_MIN == 2500
STICK_DURATION_MAX == 6000
SLIDE_SPEED_MIN == 250
SLIDE_SPEED_MAX == 800
SLIDE_DURATION_MIN == 4000
SLIDE_DURATION_MAX == 12000
DRIP_INITIAL_VELOCITY == -800
DRIP_GRAVITY == -12000
DRIP_SHRINK_RATE == 25
DRIP_REMOVE_Y == -20000
DRIP_MIN_SIZE == 10
BOUNCE_SIZE_REDUCTION == 450
MIST_SIZE_FACTOR == 350
\* 0.0003, held in millionths because it is below the fixed-point unit
STICK_JITTER_AMOUNT == 300
STICK_JITTER_SPEED == 8000

\* CONFIG.BOUNCE_CHANCE as the session runs with it: the value of config.js,
\* or 1.0 in the always-bounce scenario
VARIABLE bounceChance

(***************************************************************************)
(* Fixed-point arithmetic.                                                 *)
(***************************************************************************)
Abs(a) == IF a < 0 THEN -a ELSE a
Min(a, b) == IF a < b THEN a ELSE b
Max(a, b) == IF a > b THEN a ELSE b
Mul(a, b) == ((a * b) + 500) \div 1000
Div(a, b) == (a * 1000) \div b

RECURSIVE SqrtSearch(_, _, _)
SqrtSearch(n, lo, hi) ==
    IF lo >= hi THEN lo
    ELSE LET mid == (lo + hi + 1) \div 2
         IN  IF mid * mid <= n THEN SqrtSearch(n, mid, hi)
                               ELSE SqrtSearch(n, lo, mid - 1)

\* floor of the square root of a natural number below 2^30
ISqrt(n) == SqrtSearch(n, 0, 32767)

\* Math.sqrt(a*a + b*b + c*c) of three fixed-point numbers; large operands
\* are squared at reduced precision to stay inside the integer width
Len3(a, b, c) ==
    LET m == Max(Abs(a), Max(Abs(b), Abs(c)))
        k == IF m <= 20000 THEN 1 ELSE IF m <= 2000000 THEN 100 ELSE 10000
    IN  k * ISqrt((a \div k) * (a \div k) + (b \div k) * (b \div k)
                  + (c \div k) * (c \div k))

\* Math.sin / Math.cos of an angle given in thousandths of a turn, by quadrant
SinTurn(t) ==
    LET q == (t % 1000) \div 250
    IN  IF q = 0 THEN 0 ELSE IF q = 1 THEN 1000 ELSE IF q = 2 THEN 0 ELSE -1000
CosTurn(t) == SinTurn(t + 250)

(***************************************************************************)
(* The field handed to the backends (sdfData): resolution, padded bounding *)
(* box, voxel steps and R^3 unsigned distances indexed x + y*R + z*R^2.    *)
(* The mesh is a plate facing +Z at z = 2.5 that spans the box, so the     *)
(* distance at a voxel centre is |z - 2.5|.                                *)
(***************************************************************************)
SDFResolution == 4
SDFBBoxMin == [x |-> 0, y |-> 0, z |-> 0]
SDFBBoxMax == [x |-> 4000, y |-> 4000, z |-> 4000]
SDFStep == [x |-> 1000, y |-> 1000, z |-> 1000]
PlateZ == 2500
VoxelCentre(minv, step, i) == minv + ((2 * i + 1) * step) \div 2
SDFData ==
    [i \in 0..(SDFResolution * SDFResolution * SDFResolution - 1) |->
        Abs(VoxelCentre(SDFBBoxMin.z, SDFStep.z,
                        i \div (SDFResolution * SDFResolution)) - PlateZ)]
SDF == [data |-> SDFData, bbox |-> [min |-> SDFBBoxMin, max |-> SDFBBoxMax],
        resolution |-> SDFResolution,
        stepX |-> SDFStep.x, stepY |-> SDFStep.y, stepZ |-> SDFStep.z]

\* the field of a plate facing +Z at z = plateZ in a cubic box of r^3 voxels
PlateField(r, size, plateZ) ==
    [data |-> [i \in 0..(r * r * r - 1) |->
                 Abs(VoxelCentre(0, size \div r, i \div (r * r)) - plateZ)],
     bbox |-> [min |-> [x |-> 0, y |-> 0, z |-> 0],
               max |-> [x |-> size, y |-> size, z |-> size]],
     resolution |-> r,
     stepX |-> size \div r, stepY |-> size \div r, stepZ |-> size \div r]

\* a finer field (8^3 voxels of 0.5) whose plate lies 0.002 behind the plane of
\* voxel centres z = 3.25
SDFOffset == PlateField(8, 4000, 3248)

\* the far sentinel returned outside the field
SDF_FAR == 100000

\* a*(1-t) + b*t
Lerp(a, b, t) == Mul(a, 1000 - t) + Mul(b, t)

\* the blend of the 8 corners of the cell with low corner index i000
Trilinear(d, r, i000, tx, ty, tz) ==
    Lerp(Lerp(Lerp(d[i000], d[i000 + 1], tx),
              Lerp(d[i000 + r], d[i000 + r + 1], tx), ty),
         Lerp(Lerp(d[i000 + r * r], d[i000 + r * r + 1], tx),
              Lerp(d[i000 + r * r + r], d[i000 + r * r + r + 1], tx), ty),
         tz)

\* a bounds test that lets the last plane of cells through
OutOfCellLoose(sdf, x0, y0, z0) ==
    \/ x0 < 0 \/ x0 >= sdf.resolution
    \/ y0 < 0 \/ y0 >= sdf.resolution
    \/ z0 < 0 \/ z0 >= sdf.resolution

\* the bounds check, with one cell of margin for the interpolation
OutOfCell(sdf, x0, y0, z0) ==
    \/ x0 < 0 \/ x0 >= sdf.resolution - 1
    \/ y0 < 0 \/ y0 >= sdf.resolution - 1
    \/ z0 < 0 \/ z0 >= sdf.resolution - 1

\* the bounds test on the cell (x0, y0, z0), then the blend
SampleCell(sdf, fx, fy, fz, x0, y0, z0) ==
    IF OutOfCell(sdf, x0, y0, z0)
    THEN SDF_FAR
    ELSE Trilinear(sdf.data, sdf.resolution,
                   x0 + y0 * sdf.resolution + z0 * sdf.resolution * sdf.resolution,
                   fx - x0 * 1000, fy - y0 * 1000, fz - z0 * 1000)

\* ParticleSystem.sampleSDF: grid coordinates (voxel centres at +0.5), their
\* floors, and trilinear interpolation of the 8 cell corners
sampleSDF(sdf, x, y, z) ==
    LET fx == Div(x - sdf.bbox.min.x, sdf.stepX) - 500
        fy == Div(y - sdf.bbox.min.y, sdf.stepY) - 500
        fz == Div(z - sdf.bbox.min.z, sdf.stepZ) - 500
    IN  SampleCell(sdf, fx, fy, fz, fx \div 1000, fy \div 1000, fz \div 1000)

GRAD_EPS == 100

\* The differences of the gradient are differences of nearby samples, far
\* smaller than the samples: they are taken at 100 times the resolution of the
\* fixed point (FINE units make 0.001).
FINE == 100
TrilinearFine(d, r, i000, tx, ty, tz) ==
    Lerp(Lerp(Lerp(FINE * d[i000], FINE * d[i000 + 1], tx),
              Lerp(FINE * d[i000 + r], FINE * d[i000 + r + 1], tx), ty),
         Lerp(Lerp(FINE * d[i000 + r * r], FINE * d[i000 + r * r + 1], tx),
              Lerp(FINE * d[i000 + r * r + r], FINE * d[i000 + r * r + r + 1], tx), ty),
         tz)
SampleCellFine(sdf, fx, fy, fz, x0, y0, z0) ==
    IF OutOfCell(sdf, x0, y0, z0)
    THEN FINE * SDF_FAR
    ELSE TrilinearFine(sdf.data, sdf.resolution,
                       x0 + y0 * sdf.resolution + z0 * sdf.resolution * sdf.resolution,
                       fx - x0 * 1000, fy - y0 * 1000, fz - z0 * 1000)
sampleSDFFine(sdf, x, y, z) ==
    LET fx == Div(x - sdf.bbox.min.x, sdf.stepX) - 500
        fy == Div(y - sdf.bbox.min.y, sdf.stepY) - 500
        fz == Div(z - sdf.bbox.min.z, sdf.stepZ) - 500
    IN  SampleCellFine(sdf, fx, fy, fz, fx \div 1000, fy \div 1000, fz \div 1000)

\* an operand of the division by len, reduced with len to the integer width
Reduce(a, len) ==
    IF len <= 20000 THEN a ELSE IF len <= 2000000 THEN a \div 100 ELSE a \div 10000

\* a difference vector divided by len
Scaled(dx, dy, dz, len) ==
    [x |-> Div(Reduce(dx, len), Reduce(len, len)),
     y |-> Div(Reduce(dy, len), Reduce(len, len)),
     z |-> Div(Reduce(dz, len), Reduce(len, len))]

\* Math.sqrt(...) || 1
LenOrOne(l) == IF l = 0 THEN 1000 * FINE ELSE l

\* ParticleSystem.sdfGradient / physics-worker sdfGradient: central
\* differences, normalised; a zero length is replaced by 1
Normalised(dx, dy, dz) == Scaled(dx, dy, dz, LenOrOne(Len3(dx, dy, dz)))
sdfGradient(sdf, x, y, z) ==
    Normalised(sampleSDFFine(sdf, x + GRAD_EPS, y, z) - sampleSDFFine(sdf, x - GRAD_EPS, y, z),
               sampleSDFFine(sdf, x, y + GRAD_EPS, z) - sampleSDFFine(sdf, x, y - GRAD_EPS, z),
               sampleSDFFine(sdf, x, y, z + GRAD_EPS) - sampleSDFFine(sdf, x, y, z - GRAD_EPS))

\* PARTICLE_SHADER sdfGradient: a length below 0.001 yields (0, 1, 0)
NormalisedGPU(dx, dy, dz, len) ==
    IF len < FINE THEN [x |-> 0, y |-> 1000, z |-> 0] ELSE Scaled(dx, dy, dz, len)
GradientGPU(dx, dy, dz) == NormalisedGPU(dx, dy, dz, Len3(dx, dy, dz))
sdfGradientGPU(sdf, x, y, z) ==
    GradientGPU(sampleSDFFine(sdf, x + GRAD_EPS, y, z) - sampleSDFFine(sdf, x - GRAD_EPS, y, z),
                sampleSDFFine(sdf, x, y + GRAD_EPS, z) - sampleSDFFine(sdf, x, y - GRAD_EPS, z),
                sampleSDFFine(sdf, x, y, z + GRAD_EPS) - sampleSDFFine(sdf, x, y, z - GRAD_EPS))

(***************************************************************************)
(* A particle is one row of the structure-of-arrays store.                 *)
(***************************************************************************)
Row(px, py, pz, vx, vy, vz, st, sz, tm, sl) ==
    [posX |-> px, posY |-> py, posZ |-> pz, velX |-> vx, velY |-> vy,
     velZ |-> vz, state |-> st, size |-> sz, stickTime |-> tm, slideSpeed |-> sl]

\* a slot as the typed-array constructors leave it, with state.fill(INACTIVE)
EmptyRow == Row(0, 0, 0, 0, 0, 0, INACTIVE, 0, 0, 0)

\* a slot of a freshly created (zero-initialised) GPU storage buffer
ZeroRow == Row(0, 0, 0, 0, 0, 0, 0, 0, 0, 0)

(***************************************************************************)
(* The random draws one particle step may consume.  Math.random() lies in  *)
(* [0, 1); the shader's rand() is f32(s & 0x7FFFFFFF) / f32(0x7FFFFFFF),    *)
(* which lies in [0, 1].                                                   *)
(***************************************************************************)
Draw(decide, other) ==
    [decide |-> decide, rest |-> other, angle |-> other, mult |-> other,
     hs |-> other, vs |-> other, rx |-> other, ry |-> other, rz |-> other,
     rs |-> other]
CPUDraws == {Draw(0, 500), Draw(999, 500)}
GPUDraws == {Draw(0, 500), Draw(1000, 500)}

\* the bounce branch: reflected velocity with restitution, radial spray and
\* scatter, and the size reduction (same formula in the worker and shader)
Bounce(p, normal, rnd) ==
    LET vx == p.velX
        vy == p.velY
        vz == p.velZ
        impactSpeed == Len3(vx, vy, vz)
        dotVN == Mul(vx, normal.x) + Mul(vy, normal.y) + Mul(vz, normal.z)
        angleInfluence == Div(Abs(dotVN), impactSpeed + 10)
        baseRestitution == BOUNCE_RESTITUTION_MIN
            + Mul(rnd.rest, BOUNCE_RESTITUTION_MAX - BOUNCE_RESTITUTION_MIN)
        restitution == Mul(baseRestitution, 700 + Mul(300, 1000 - angleInfluence))
        reflX == Mul(vx - 2 * Mul(dotVN, normal.x), restitution)
        reflY == Mul(vy - 2 * Mul(dotVN, normal.y), restitution)
        reflZ == Mul(vz - 2 * Mul(dotVN, normal.z), restitution)
        sprayStrength == Mul(impactSpeed, IMPACT_SPRAY_FACTOR)
        tangentX == IF Abs(normal.x) > 900 THEN 0 ELSE 1000
        tangentY == IF Abs(normal.x) > 900 THEN 1000 ELSE 0
        tangentZ == 0
        t1x == Mul(normal.y, tangentZ) - Mul(normal.z, tangentY)
        t1y == Mul(normal.z, tangentX) - Mul(normal.x, tangentZ)
        t1z == Mul(normal.x, tangentY) - Mul(normal.y, tangentX)
        l1 == Len3(t1x, t1y, t1z)
        t1len == IF l1 = 0 THEN 1000 ELSE l1
        nt1x == Div(t1x, t1len)
        nt1y == Div(t1y, t1len)
        nt1z == Div(t1z, t1len)
        t2x == Mul(normal.y, nt1z) - Mul(normal.z, nt1y)
        t2y == Mul(normal.z, nt1x) - Mul(normal.x, nt1z)
        t2z == Mul(normal.x, nt1y) - Mul(normal.y, nt1x)
        sprayMult == Mul(sprayStrength, 500 + Mul(rnd.mult, 500))
        cs == CosTurn(rnd.angle)
        sn == SinTurn(rnd.angle)
        sprayX == Mul(Mul(nt1x, cs) + Mul(t2x, sn), sprayMult)
        sprayY == Mul(Mul(nt1y, cs) + Mul(t2y, sn), sprayMult)
        sprayZ == Mul(Mul(nt1z, cs) + Mul(t2z, sn), sprayMult)
        hScatter == Mul(BOUNCE_SCATTER, 300 + Mul(rnd.hs, 700))
        vScatter == Mul(BOUNCE_SCATTER_VERTICAL, 400 + Mul(rnd.vs, 600))
        speedFactor == Min(Div(impactSpeed, 40000), 1000)
        sizeReduction == Max(BOUNCE_SIZE_REDUCTION - Mul(speedFactor, MIST_SIZE_FACTOR), 200)
    IN  [p EXCEPT
           !.velX = reflX + sprayX + Mul(rnd.rx - 500, hScatter) * 2,
           !.velY = reflY + sprayY + Mul(rnd.ry, vScatter) + SPLASH_UPWARD_BIAS,
           !.velZ = reflZ + sprayZ + Mul(rnd.rz - 500, hScatter),
           !.state = BOUNCING,
           !.size = Mul(p.size, Mul(sizeReduction, 600 + Mul(rnd.rs, 600)))]

\* the stick branch
Stick(p) ==
    [p EXCEPT !.velX = 0, !.velY = 0, !.velZ = 0, !.state = STUCK, !.stickTime = 0]

\* "Remove if missed text entirely": the check that closes the FALLING branch
RemoveIfMissed(p) ==
    IF p.posY < DRIP_REMOVE_Y \/ p.posZ < -10000
    THEN [p EXCEPT !.state = INACTIVE, !.size = 0]
    ELSE p

\* the check that closes the BOUNCING and DRIPPING branches
RemoveIfGone(p) ==
    IF p.posY < DRIP_REMOVE_Y \/ p.size < DRIP_MIN_SIZE
    THEN [p EXCEPT !.state = INACTIVE, !.size = 0]
    ELSE p

\* velocity integrated by gravity, position integrated by the new velocity
Integrate(p, dt) ==
    LET vy == p.velY + Mul(DRIP_GRAVITY, dt)
    IN  [p EXCEPT !.velY = vy,
                  !.posX = p.posX + Mul(p.velX, dt),
                  !.posY = p.posY + Mul(vy, dt),
                  !.posZ = p.posZ + Mul(p.velZ, dt)]

\* Math.sin(time * STICK_JITTER_SPEED + posY * 3) * STICK_JITTER_AMOUNT
Jitter(time, posY) ==
    LET arg == Mul(time, STICK_JITTER_SPEED) + posY * 3
        turn == (arg * 1000) \div 6283
    IN  ((SinTurn(turn) * STICK_JITTER_AMOUNT) + 500000) \div 1000000

\* a FALLING branch whose contact starts the drip at once
FallingStepDripsOnContact(p, dt, rnd, sdf) ==
    LET q == Integrate(p, dt)
        dist == sampleSDF(sdf, q.posX, q.posY, q.posZ)
    IN  IF dist < 200
        THEN [q EXCEPT !.state = DRIPPING, !.velY = DRIP_INITIAL_VELOCITY]
        ELSE RemoveIfMissed(q)

\* "Push out of surface"
PushOut(q, normal, push) ==
    [q EXCEPT !.posX = q.posX + Mul(normal.x, push),
              !.posY = q.posY + Mul(normal.y, push),
              !.posZ = q.posZ + Mul(normal.z, push)]

\* "Decide: BOUNCE or STICK?"
BounceOrStick(pushed, normal, rnd) ==
    IF rnd.decide < bounceChance THEN Bounce(pushed, normal, rnd) ELSE Stick(pushed)

\* the collision test of the FALLING branch on the integrated particle q:
\* close to the surface, front facing and near the front of the text
Accepts(q, dist, normal, sdf) ==
    dist < 200 /\ normal.z > 500 /\ q.posZ > sdf.bbox.max.z - 1500
Collide(q, dist, normal, rnd, sdf) ==
    IF Accepts(q, dist, normal, sdf)
    THEN BounceOrStick(PushOut(q, normal, 100 - dist), normal, rnd)
    ELSE q

FallingContact(q, rnd, sdf) ==
    RemoveIfMissed(Collide(q, sampleSDF(sdf, q.posX, q.posY, q.posZ),
                           sdfGradient(sdf, q.posX, q.posY, q.posZ), rnd, sdf))

\* ParticleSystem.update, FALLING branch
FallingStep(p, dt, rnd, sdf) == FallingContact(Integrate(p, dt), rnd, sdf)

\* The earlier revision of ParticleSystem that main-gpu.js runs: its bounce
\* reflects with a drawn restitution and adds scatter
BounceEarlier(p, normal, rnd) ==
    LET dotVN == Mul(p.velX, normal.x) + Mul(p.velY, normal.y)
                 + Mul(p.velZ, normal.z)
        restitution == BOUNCE_RESTITUTION_MIN
            + Mul(rnd.rest, BOUNCE_RESTITUTION_MAX - BOUNCE_RESTITUTION_MIN)
    IN  [p EXCEPT
           !.velX = Mul(p.velX - 2 * Mul(dotVN, normal.x), restitution)
                    + Mul(rnd.rx - 500, BOUNCE_SCATTER) * 2,
           !.velY = Mul(p.velY - 2 * Mul(dotVN, normal.y), restitution)
                    + Mul(rnd.ry - 500, BOUNCE_SCATTER) + SPLASH_UPWARD_BIAS,
           !.velZ = Mul(p.velZ - 2 * Mul(dotVN, normal.z), restitution)
                    + Mul(rnd.rz - 500, BOUNCE_SCATTER),
           !.state = BOUNCING,
           !.size = Mul(p.size, BOUNCE_SIZE_REDUCTION + Mul(rnd.rs, 300))]

\* ... its collision test is the distance alone, and it pushes at once
EARLIER_IMPACT == 350
EARLIER_PUSH == 150
CollideEarlier(q, dist, normal, rnd) ==
    IF dist < EARLIER_IMPACT
    THEN IF rnd.decide < bounceChance
         THEN BounceEarlier(PushOut(q, normal, EARLIER_PUSH - dist), normal, rnd)
         ELSE Stick(PushOut(q, normal, EARLIER_PUSH - dist))
    ELSE q

FallingContactEarlier(q, rnd, sdf) ==
    RemoveIfMissed(CollideEarlier(q, sampleSDF(sdf, q.posX, q.posY, q.posZ),
                                  sdfGradient(sdf, q.posX, q.posY, q.posZ), rnd))

\* ... FALLING branch
FallingStepEarlier(p, dt, rnd, sdf) ==
    FallingContactEarlier(Integrate(p, dt), rnd, sdf)

\* BOUNCING branch
BouncingStep(p, dt) ==
    LET vy == p.velY + Mul(DRIP_GRAVITY, dt)
        vx == Mul(p.velX, BOUNCE_DRAG)
        vz == Mul(p.velZ, BOUNCE_DRAG)
        q == [p EXCEPT !.velX = vx, !.velY = vy, !.velZ = vz,
                       !.posX = p.posX + Mul(vx, dt),
                       !.posY = p.posY + Mul(vy, dt),
                       !.posZ = p.posZ + Mul(vz, dt),
                       !.size = Mul(p.size, 1000 - Mul(dt, DRIP_SHRINK_RATE))]
    IN  RemoveIfGone(q)

\* a STUCK branch whose stick timer does not advance
StuckStepHolding(p, dt, time) == p

\* a STUCK branch that starts the drip as soon as the timer reaches the duration
StuckStepAtDuration(p, dt, time) ==
    LET tm == p.stickTime + dt
        px == p.posX + Jitter(time, p.posY)
        stickDuration == STICK_DURATION_MIN
            + Mul(p.slideSpeed, STICK_DURATION_MAX - STICK_DURATION_MIN)
        q == [p EXCEPT !.stickTime = tm, !.posX = px]
    IN  IF tm >= stickDuration
        THEN [q EXCEPT !.state = DRIPPING, !.velY = DRIP_INITIAL_VELOCITY]
        ELSE q

\* STUCK branch: wait, then go straight to DRIPPING
StuckStep(p, dt, time) ==
    LET tm == p.stickTime + dt
        px == p.posX + Jitter(time, p.posY)
        stickDuration == STICK_DURATION_MIN
            + Mul(p.slideSpeed, STICK_DURATION_MAX - STICK_DURATION_MIN)
        q == [p EXCEPT !.stickTime = tm, !.posX = px]
    IN  IF tm > stickDuration
        THEN [q EXCEPT !.state = DRIPPING, !.velY = DRIP_INITIAL_VELOCITY]
        ELSE q

\* gravity tangent to the surface, times the slide speed
SlideVelocity(p, normal, dot, speed) ==
    [p EXCEPT !.velX = Mul(- Mul(normal.x, dot), speed),
              !.velY = Mul(DRIP_GRAVITY - Mul(normal.y, dot), speed),
              !.velZ = Mul(- Mul(normal.z, dot), speed)]

\* pos += vel * dt
Move(p, dt) ==
    [p EXCEPT !.posX = p.posX + Mul(p.velX, dt),
              !.posY = p.posY + Mul(p.velY, dt),
              !.posZ = p.posZ + Mul(p.velZ, dt)]

\* "Check if still on surface": left it or reached the letter bottom, start
\* dripping; too close, push back
SlideSurface(q, dist, normal, sdf) ==
    IF dist > 400 \/ q.posY < sdf.bbox.min.y + 300
    THEN [q EXCEPT !.state = DRIPPING, !.velX = Mul(q.velX, 300),
                   !.velY = DRIP_INITIAL_VELOCITY, !.velZ = Mul(q.velZ, 300)]
    ELSE IF dist < 80 THEN PushOut(q, normal, 120 - dist)
    ELSE q

\* "Max slide time then force drip"
SlideTimer(r, tm, maxSlide) ==
    IF tm > maxSlide
    THEN [r EXCEPT !.stickTime = tm, !.state = DRIPPING,
                   !.velY = DRIP_INITIAL_VELOCITY]
    ELSE [r EXCEPT !.stickTime = tm]

SlideOn(q, normal, dt, sdf) ==
    SlideTimer(SlideSurface(q, sampleSDF(sdf, q.posX, q.posY, q.posZ), normal, sdf),
               q.stickTime + dt,
               SLIDE_DURATION_MIN
                   + Mul(q.slideSpeed, SLIDE_DURATION_MAX - SLIDE_DURATION_MIN))

SlideAlong(p, normal, dt, sdf) ==
    SlideOn(Move(SlideVelocity(p, normal, Mul(DRIP_GRAVITY, normal.y),
                               SLIDE_SPEED_MIN
                                   + Mul(p.slideSpeed, SLIDE_SPEED_MAX - SLIDE_SPEED_MIN)),
                 dt),
            normal, dt, sdf)

\* SLIDING branch (single-threaded backend only)
SlidingStep(p, dt, sdf) ==
    SlideAlong(p, sdfGradient(sdf, p.posX, p.posY, p.posZ), dt, sdf)

\* DRIPPING branch
\* a DRIPPING branch whose drop swells at the shrink rate
DrippingStepSwelling(p, dt) ==
    RemoveIfGone([p EXCEPT !.velY = p.velY + Mul(DRIP_GRAVITY, dt),
                           !.posY = p.posY + Mul(p.velY + Mul(DRIP_GRAVITY, dt), dt),
                           !.size = Mul(p.size, 1000 + Mul(dt, DRIP_SHRINK_RATE))])

DrippingStep(p, dt) ==
    LET vy == p.velY + Mul(DRIP_GRAVITY, dt)
        vx == Mul(p.velX, 990)
        vz == Mul(p.velZ, 990)
        q == [p EXCEPT !.velX = vx, !.velY = vy, !.velZ = vz,
                       !.posX = p.posX + Mul(vx, dt),
                       !.posY = p.posY + Mul(vy, dt),
                       !.posZ = p.posZ + Mul(vz, dt),
                       !.size = Mul(p.size, 1000 - Mul(dt, DRIP_SHRINK_RATE))]
    IN  RemoveIfGone(q)

\* one iteration of the loop of ParticleSystem.update (single-threaded)
CPUStep(p, dt, time, rnd, sdf) ==
    IF p.state = INACTIVE THEN p
    ELSE IF p.state = FALLING THEN FallingStep(p, dt, rnd, sdf)
    ELSE IF p.state = BOUNCING THEN BouncingStep(p, dt)
    ELSE IF p.state = STUCK THEN StuckStep(p, dt, time)
    ELSE IF p.state = SLIDING THEN SlidingStep(p, dt, sdf)
    ELSE IF p.state = DRIPPING THEN DrippingStep(p, dt)
    ELSE p

\* one iteration of the loop of the earlier revision's update: only the
\* FALLING branch differs
EarlierStep(p, dt, time, rnd, sdf) ==
    IF p.state = FALLING THEN FallingStepEarlier(p, dt, rnd, sdf)
    ELSE CPUStep(p, dt, time, rnd, sdf)

\* one iteration of the loop of processParticles (physics-worker.js): the
\* same branches, without the SLIDING one
WorkerProcess(p, dt, time, rnd, sdf) ==
    IF p.state = INACTIVE THEN p
    ELSE IF p.state = FALLING THEN FallingStep(p, dt, rnd, sdf)
    ELSE IF p.state = BOUNCING THEN BouncingStep(p, dt)
    ELSE IF p.state = STUCK THEN StuckStep(p, dt, time)
    ELSE IF p.state = DRIPPING THEN DrippingStep(p, dt)
    ELSE p

FallingContactGPU(q, rnd, sdf) ==
    RemoveIfMissed(Collide(q, sampleSDF(sdf, q.posX, q.posY, q.posZ),
                           sdfGradientGPU(sdf, q.posX, q.posY, q.posZ), rnd, sdf))

\* PARTICLE_SHADER, FALLING branch: as FallingStep with the shader's gradient
FallingStepGPU(p, dt, rnd, sdf) == FallingContactGPU(Integrate(p, dt), rnd, sdf)

\* one invocation of PARTICLE_SHADER main for a particle below particleCount
GPUKernel(p, dt, time, rnd, sdf) ==
    IF p.state = INACTIVE THEN p
    ELSE IF p.state = FALLING THEN FallingStepGPU(p, dt, rnd, sdf)
    ELSE IF p.state = BOUNCING THEN BouncingStep(p, dt)
    ELSE IF p.state = STUCK THEN StuckStep(p, dt, time)
    ELSE IF p.state = DRIPPING THEN DrippingStep(p, dt)
    ELSE p

(***************************************************************************)
(* Inputs of the model: the batches the driver spawns, the frame interval. *)
(***************************************************************************)
Slots == 0..(MaxParticles - 1)
Workers == 0..(WorkerCount - 1)

\* a drop that reaches the front band of the plate after one second
RowHit == Row(2000, 14000, 3600, 0, 0, -1000, FALLING, 160, 0, 0)
\* a drop spawned below the removal threshold, moving upward
RowLowUp == Row(2000, -21000, 3000, 0, 14000, 0, FALLING, 30, 0, 1000)
SpawnRows == {RowHit, RowLowUp}

\* a drop that reaches z = 3.25 after one second
RowEdge == Row(2000, 14000, 4250, 0, 0, -1000, FALLING, 160, 0, 0)

\* a drop that has passed the plate after one second: 0.1 behind it
RowBehind == Row(2000, 14000, 3400, 0, 0, -1000, FALLING, 160, 0, 0)

\* spawn(positions, velocities, sizes, slideSpeeds): n particles of one row
SpawnArgs == [row : SpawnRows, n : {1, MaxSpawn}]
DtSet == {0, 1000}
TimeSet == {1000}

NULL == "null"
WEBGPU == "webgpu"
WORKERS == "workers"
SINGLE_THREAD == "single-thread"

\* an optional value: absent, or present
None == <<>>
Some(v) == <<v>>

VARIABLES
    initPc,             \* position of HybridParticleSystem.init
    backendType,        \* HybridParticleSystem.backendType
    backend,            \* HybridParticleSystem.backend: NULL, "worker", "cpu"
    gpuCompute,         \* HybridParticleSystem.gpuCompute: NULL, "failed", "ready"
    gpuInitResult,      \* what the GPU stage of init returned
    workerInitResult,   \* what the worker stage of init returned
    workerReady,        \* workers whose 'ready' message has been received
    workerFailed,       \* workers whose script failed before posting 'ready'
    count,              \* HybridParticleSystem.count
    store,              \* the backend's particle store (SoA rows / device buffer)
    bcount,             \* backend.count of the CPU backends
    highestActiveIndex, \* backend.highestActiveIndex of the CPU backends
    pendingUpdates,     \* WorkerParticleSystem.pendingUpdates
    workerQueue,        \* per worker: 'update' messages posted and not finished
    workerCursor,       \* per worker: index the running task will process next
    workerHeld,         \* per worker: the state its iteration had read from that
                        \* slot when a reset overwrote it, None otherwise
    gpuParticleData,    \* HybridParticleSystem.gpuParticleData (host snapshot)
    gpuPending,         \* read-back submitted by an update that is still awaited
    gpuStep,            \* the GPU update of the current frame: what it has done
                        \* so far, and the rows its dispatch produced
    updateInProgress,   \* the driver's flag
    drvPc,              \* the driver's frame: "idle", "awaiting", "sync"
    frameDt,            \* the driver's frame interval
    lastReturn,         \* value the update of the current frame returned, or -1
    life,               \* per slot: history of the particle living in it
    lastOp,             \* "reset", "resetSpawn" (a spawn right after it),
                        \* "threw" (an update that threw), "other"
    lastArgs,           \* the arguments of that spawn, while lastOp = "resetSpawn"
    lastStep,           \* slots the latest update dispatched, and those advanced
    partialCopy,        \* the last copyToBuffers saw a partly advanced store
    kin,                \* kernels side by side: the particle step under study
    kout,               \* kernels side by side: what each backend made of it
    fieldPc,            \* position of initParticleSystem / generateSDFAsync
    cacheKey,           \* initParticleSystem's cacheKey: given, or null
    cacheDB,            \* the record the IndexedDB store holds under the key
    cacheRead,          \* how getCachedSDF ended, and what became of its value
    cacheWrite,         \* the cacheSDF request: the field, and how it ended
    sdfData,            \* initParticleSystem's sdfData
    lastSDFBackend,     \* generateSDFAsync's module variable
    attempts,           \* the strategies generateSDFAsync has tried, in order
    particles,          \* the particle system created: "hybrid" or "plain"
    poolSize,           \* a worker pool on its own: WorkerParticleSystem.workerCount
    poolCount,          \* ... its count
    poolQueue,          \* ... per worker: 'update' messages posted, not yet done
    poolPending,        \* ... its pendingUpdates
    poolPosted,         \* ... the latest dispatch: count, and the ranges posted
    geoIn,              \* field generation on its own: the triangles, and the
                        \* query point or the number of slice workers
    geoOut,             \* ... what the functions applied to them have returned
    render,             \* the position and state attributes of the particle mesh,
                        \* and how often they have been copied into
    idbEntries,         \* the records of the IndexedDB object store 'sdf-data'
    idbQueue,           \* the transactions created on it, in creation order
    pruneState          \* a pruneCache call: its argument, how far it has come

vars == <<initPc, backendType, backend, gpuCompute, gpuInitResult,
          workerInitResult, workerReady, workerFailed, count, store, bcount,
          highestActiveIndex, pendingUpdates, workerQueue, workerCursor,
          workerHeld, gpuParticleData, gpuPending, gpuStep, updateInProgress, drvPc,
          frameDt,
          lastReturn, life, lastOp, lastArgs, lastStep, partialCopy,
          bounceChance, kin, kout, fieldPc, cacheKey, cacheDB, cacheRead,
          cacheWrite, sdfData, lastSDFBackend, attempts, particles,
          poolSize, poolCount, poolQueue, poolPending, poolPosted,
          geoIn, geoOut, render, idbEntries, idbQueue, pruneState>>

\* a GPU update that has dispatched nothing
NoStep == [order |-> <<>>, rows |-> None]

\* what the operations of the particle system never change
fieldVars == <<fieldPc, cacheKey, cacheDB, cacheRead, cacheWrite, sdfData,
               lastSDFBackend, attempts, particles>>
kernelVars == <<bounceChance, kin, kout>>
poolVars == <<poolSize, poolCount, poolQueue, poolPending, poolPosted>>
geoVars == <<geoIn, geoOut>>
renderVars == <<render>>
idbVars == <<idbEntries, idbQueue, pruneState>>
auxVars == <<kernelVars, fieldVars, poolVars, geoVars, renderVars, idbVars>>

initVars == <<initPc, backendType, backend, gpuCompute, gpuInitResult,
              workerInitResult, workerReady, workerFailed, frameDt>>
workerVars == <<pendingUpdates, workerQueue, workerCursor, workerHeld>>
gpuVars == <<gpuParticleData, gpuPending, gpuStep>>
drvVars == <<updateInProgress, drvPc>>
storeVars == <<count, store, bcount, highestActiveIndex, lastReturn, life,
               lastOp, lastArgs, lastStep, partialCopy>>

\* the life of the particle in a slot: whether it has been STUCK or BOUNCING,
\* how many steps have processed it (capped at 2), whether it was spawned
\* below the removal threshold
NewLife(row) == [hist |-> FALSE, age |-> 0, low |-> row.posY < DRIP_REMOVE_Y]
NoLife == [hist |-> FALSE, age |-> 0, low |-> FALSE]
LifeAfter(l, old, new) ==
    IF old.state = INACTIVE THEN l
    ELSE [l EXCEPT !.hist = l.hist \/ new.state \in {STUCK, BOUNCING},
                   !.age = Min(l.age + 1, 2)]

\* count and the rows below it
Snapshot(st, n) == [count |-> n, rows |-> [i \in 0..(n - 1) |-> st[i]]]

\* no backend has run the step under study
NoOutputs == [cpu |-> None, worker |-> None, gpu |-> None, earlier |-> None]

(***************************************************************************)
(* Construction: new HybridParticleSystem(maxParticles), init just called. *)
(***************************************************************************)
NoParticles ==
    /\ count = 0
    /\ store = [i \in Slots |-> EmptyRow]
    /\ bcount = 0
    /\ highestActiveIndex = 0
    /\ pendingUpdates = 0
    /\ workerQueue = [w \in Workers |-> <<>>]
    /\ workerCursor = [w \in Workers |-> 0]
    /\ workerHeld = [w \in Workers |-> None]
    /\ gpuParticleData = None
    /\ gpuPending = None
    /\ gpuStep = NoStep
    /\ updateInProgress = FALSE
    /\ drvPc = "idle"
    /\ lastReturn = -1
    /\ life = [i \in Slots |-> NoLife]
    /\ lastOp = "other"
    /\ lastArgs = None
    /\ lastStep = [dispatched |-> {}, advanced |-> {}]
    /\ partialCopy = FALSE

Constructed ==
    /\ backendType = NULL
    /\ backend = NULL
    /\ gpuCompute = NULL
    /\ gpuInitResult = "none"
    /\ workerInitResult = "none"
    /\ workerReady = {}
    /\ workerFailed = {}
    /\ NoParticles

\* the field flow is not under study: the field SDF has been handed over
NoFieldFlow ==
    /\ fieldPc = "none"
    /\ cacheKey = FALSE
    /\ cacheDB = None
    /\ cacheRead = "none"
    /\ cacheWrite = None
    /\ sdfData = None
    /\ lastSDFBackend = "unknown"
    /\ attempts = <<>>
    /\ particles = "none"

\* no worker pool is studied on its own
NoPool ==
    /\ poolSize = 0
    /\ poolCount = 0
    /\ poolQueue = <<>>
    /\ poolPending = 0
    /\ poolPosted = None

\* no field generation is studied on its own
NoGeo ==
    /\ geoIn = None
    /\ geoOut = None

\* createParticleMesh: the two attributes are zero-filled Float32Arrays
RenderRow(px, py, pz, st, tm, sz, sl) ==
    [posX |-> px, posY |-> py, posZ |-> pz, state |-> st, stickTime |-> tm,
     size |-> sz, slideSpeed |-> sl]
NoRender ==
    render = [rows |-> [i \in Slots |-> RenderRow(0, 0, 0, 0, 0, 0, 0)],
              copies |-> 0]

\* no pruneCache call is studied on its own
NoPrune == [n |-> 0, status |-> "none", issued |-> {}, written |-> None,
            read |-> None, deletes |-> {}, observed |-> None]
NoIdb ==
    /\ idbEntries = {}
    /\ idbQueue = <<>>
    /\ pruneState = NoPrune

Init ==
    /\ initPc = "probeGPU"
    /\ frameDt \in DtSet
    /\ Constructed
    /\ bounceChance = BOUNCE_CHANCE
    /\ kin = None
    /\ kout = NoOutputs
    /\ NoFieldFlow
    /\ NoPool
    /\ NoGeo
    /\ NoRender
    /\ NoIdb

(***************************************************************************)
(* HybridParticleSystem.init                                               *)
(***************************************************************************)
\* a probe that goes straight to the single-threaded backend without WebGPU
InitProbeGPUSkipsWorkers ==
    /\ initPc = "probeGPU"
    /\ \E available \in BOOLEAN :
         IF available
         THEN /\ gpuCompute' = "failed"
              /\ initPc' = "gpuInit"
              /\ UNCHANGED gpuInitResult
         ELSE /\ initPc' = "single"
              /\ gpuInitResult' = "unavailable"
              /\ UNCHANGED gpuCompute
    /\ UNCHANGED <<backendType, backend, workerInitResult, workerReady,
                   workerFailed, frameDt>>
    /\ UNCHANGED <<storeVars, workerVars, gpuVars, drvVars>>
    /\ UNCHANGED auxVars

\* await isWebGPUAvailable(): navigator.gpu present and an adapter returned
InitProbeGPU ==
    /\ initPc = "probeGPU"
    /\ \E available \in BOOLEAN :
         IF available
         THEN /\ gpuCompute' = "failed"     \* constructed, not ready yet
              /\ initPc' = "gpuInit"
              /\ UNCHANGED gpuInitResult
         ELSE /\ initPc' = "probeWorkers"
              /\ gpuInitResult' = "unavailable"
              /\ UNCHANGED gpuCompute
    /\ UNCHANGED <<backendType, backend, workerInitResult, workerReady,
                   workerFailed, frameDt>>
    /\ UNCHANGED <<storeVars, workerVars, gpuVars, drvVars>>
    /\ UNCHANGED auxVars

\* await this.gpuCompute.init(): false when no adapter or any step throws;
\* on true setSDF and commit WEBGPU.  A new storage buffer is all zeros.
InitGPU ==
    /\ initPc = "gpuInit"
    /\ \E ok \in BOOLEAN :
         IF ok
         THEN /\ gpuCompute' = "ready"
              /\ gpuInitResult' = "true"
              /\ backendType' = WEBGPU
              /\ store' = [i \in Slots |-> ZeroRow]
              /\ initPc' = "done"
         ELSE /\ gpuInitResult' = "false"
              /\ initPc' = "probeWorkers"
              /\ UNCHANGED <<gpuCompute, backendType, store>>
    /\ UNCHANGED <<backend, workerInitResult, workerReady, workerFailed, frameDt>>
    /\ UNCHANGED <<count, bcount, highestActiveIndex, lastReturn, life, lastOp,
                   lastArgs, lastStep, partialCopy>>
    /\ UNCHANGED <<workerVars, gpuVars, drvVars>>
    /\ UNCHANGED auxVars

\* typeof SharedArrayBuffer, new WorkerParticleSystem, workerSystem.init up to
\* its await: creating a worker may throw, which init catches
InitProbeWorkers ==
    /\ initPc = "probeWorkers"
    /\ \E env \in {"undefined", "throws", "created"} :
         /\ initPc' = IF env = "created" THEN "awaitWorkers" ELSE "single"
         /\ workerInitResult' = IF env = "created" THEN "none"
                                ELSE IF env = "throws" THEN "threw"
                                ELSE "unavailable"
    /\ UNCHANGED <<backendType, backend, gpuCompute, gpuInitResult, workerReady,
                   workerFailed, frameDt>>
    /\ UNCHANGED <<storeVars, workerVars, gpuVars, drvVars>>
    /\ UNCHANGED auxVars

\* a worker handles 'init' and posts 'ready'; the orchestrator's onmessage
\* resolves that worker's promise
WorkerPostsReady(w) ==
    /\ initPc = "awaitWorkers"
    /\ w \notin workerReady
    /\ w \notin workerFailed
    /\ workerReady' = workerReady \cup {w}
    /\ UNCHANGED <<initPc, backendType, backend, gpuCompute, gpuInitResult,
                   workerInitResult, workerFailed, frameDt>>
    /\ UNCHANGED <<storeVars, workerVars, gpuVars, drvVars>>
    /\ UNCHANGED auxVars

\* a worker's script fails to load or throws before posting 'ready'; the
\* orchestrator installs no onerror handler and never rejects the promise
WorkerFails(w) ==
    /\ initPc = "awaitWorkers"
    /\ w \notin workerReady
    /\ w \notin workerFailed
    /\ workerFailed' = workerFailed \cup {w}
    /\ UNCHANGED <<initPc, backendType, backend, gpuCompute, gpuInitResult,
                   workerInitResult, workerReady, frameDt>>
    /\ UNCHANGED <<storeVars, workerVars, gpuVars, drvVars>>
    /\ UNCHANGED auxVars

\* await Promise.all(workerPromises) resolves: ready, commit WORKERS
InitWorkersReady ==
    /\ initPc = "awaitWorkers"
    /\ workerReady = Workers
    /\ workerInitResult' = "true"
    /\ backend' = "worker"
    /\ backendType' = WORKERS
    /\ initPc' = "done"
    /\ UNCHANGED <<gpuCompute, gpuInitResult, workerReady, workerFailed, frameDt>>
    /\ UNCHANGED <<storeVars, workerVars, gpuVars, drvVars>>
    /\ UNCHANGED auxVars

\* fall back to the single-threaded backend
InitSingleThread ==
    /\ initPc = "single"
    /\ backend' = "cpu"
    /\ backendType' = SINGLE_THREAD
    /\ initPc' = "done"
    /\ UNCHANGED <<gpuCompute, gpuInitResult, workerInitResult, workerReady,
                   workerFailed, frameDt>>
    /\ UNCHANGED <<storeVars, workerVars, gpuVars, drvVars>>
    /\ UNCHANGED auxVars

(***************************************************************************)
(* spawn                                                                   *)
(***************************************************************************)
\* the writes of one spawn loop: k rows from slot `from` on, each with the
\* given position, velocity, size and slide speed, FALLING, stick timer 0
SpawnWrite(st, from, k, row) ==
    [i \in Slots |->
       IF i >= from /\ i < from + k
       THEN [row EXCEPT !.state = FALLING, !.stickTime = 0]
       ELSE st[i]]

\* a spawn loop without the this.count < this.max test
CPUSpawnUnclamped(st, cnt, args) ==
    [store |-> SpawnWrite(st, cnt, args.n, args.row), count |-> cnt + args.n]

\* ParticleSystem.spawn: for (i < count && this.count < this.max) idx = count++
CPUSpawn(st, cnt, args) ==
    LET k == Min(args.n, MaxParticles - cnt)
    IN  [store |-> SpawnWrite(st, cnt, k, args.row), count |-> cnt + k]

\* WorkerParticleSystem.spawn: the same loop on the shared arrays
WorkerSpawn(st, cnt, args) ==
    LET k == Min(args.n, MaxParticles - cnt)
    IN  [store |-> SpawnWrite(st, cnt, k, args.row), count |-> cnt + k]

\* GPUComputeParticles.spawn(.., startIndex, count): clamp to the free slots
\* and upload the batch at startIndex
GPUSpawn(st, startIndex, args) ==
    LET availableSlots == MaxParticles - startIndex
        actualCount == Min(args.n, availableSlots)
    IN  IF availableSlots <= 0 THEN st
        ELSE SpawnWrite(st, startIndex, actualCount, args.row)

\* HybridParticleSystem.spawn: the store and this.count it leaves
SpawnResult(args) ==
    IF backendType = WEBGPU
    THEN [store |-> GPUSpawn(store, count, args),
          count |-> Min(count + args.n, MaxParticles)]
    ELSE IF backendType = WORKERS
    THEN WorkerSpawn(store, bcount, args)
    ELSE CPUSpawn(store, bcount, args)

\* what the call evaluates to: no spawn has a return statement with a value
\* (the backends' loops fall off the end, the hybrid's branches likewise)
SpawnReturn(args) == None

\* The worker backend's spawn writes the shared arrays with plain stores while
\* the workers may be running a task: the workers whose running task is about
\* to process a slot in [from, to), the slots this spawn writes
Racing(from, to) ==
    IF backendType # WORKERS THEN {}
    ELSE {w \in Workers : /\ workerQueue[w] # <<>>
                          /\ workerHeld[w] = None
                          /\ workerCursor[w] < Head(workerQueue[w]).endIdx
                          /\ workerCursor[w] >= from
                          /\ workerCursor[w] < to}

\* the row the worker's iteration finds when it runs between spawn's store to
\* state[idx] and its store to size[idx]: the new position, velocity and
\* state, the old size, stick timer and slide speed
SeenMidSpawn(row, old) ==
    [row EXCEPT !.state = FALLING, !.size = old.size,
                !.stickTime = old.stickTime, !.slideSpeed = old.slideSpeed]

\* ... and the row the slot holds when spawn returns: the worker's result,
\* with the three fields spawn stored after it
TornWrite(row, old, task, rnd) ==
    [WorkerProcess(SeenMidSpawn(row, old), task.dt, task.time, rnd, SDF)
       EXCEPT !.size = row.size, !.stickTime = 0, !.slideSpeed = row.slideSpeed]

\* the store a spawn leaves when the iterations of the workers in T overlap it
SpawnStore(clean, T, args, rnd) ==
    [i \in Slots |->
       IF \E w \in T : workerCursor[w] = i
       THEN TornWrite(args.row, store[i],
                      Head(workerQueue[CHOOSE w \in T : workerCursor[w] = i]), rnd)
       ELSE clean[i]]

SpawnLife(new, from, to, T, args) ==
    [i \in Slots |->
       IF i >= from /\ i < to
       THEN IF \E w \in T : workerCursor[w] = i
            THEN LifeAfter(NewLife(args.row), args.row, new[i])
            ELSE NewLife(args.row)
       ELSE life[i]]

HybridSpawn(args) ==
    /\ initPc = "done"
    /\ drvPc # "sync"
    /\ lastOp' = IF lastOp = "reset" THEN "resetSpawn" ELSE "other"
    /\ lastArgs' = IF lastOp = "reset" THEN Some(args) ELSE None
    /\ count' = SpawnResult(args).count
    /\ bcount' = IF backendType = WEBGPU THEN bcount ELSE count'
    /\ \E T \in SUBSET Racing(IF backendType = WEBGPU THEN count ELSE bcount, count') :
         \E rnd \in IF T = {} THEN {Draw(0, 500)} ELSE CPUDraws :
           /\ workerCursor' = [w \in Workers |->
                 IF w \in T THEN workerCursor[w] + 1 ELSE workerCursor[w]]
           /\ lastStep' = [lastStep EXCEPT !.advanced =
                 @ \cup {workerCursor[w] : w \in
                            {v \in T : Head(workerQueue[v]).latest}}]
           /\ store' = SpawnStore(SpawnResult(args).store, T, args, rnd)
           /\ life' = SpawnLife(store', IF backendType = WEBGPU THEN count ELSE bcount,
                                count', T, args)
    /\ UNCHANGED <<highestActiveIndex, lastReturn, partialCopy>>
    /\ UNCHANGED <<initVars, pendingUpdates, workerQueue, workerHeld, gpuVars,
                   drvVars>>
    /\ UNCHANGED auxVars

(***************************************************************************)
(* reset                                                                   *)
(***************************************************************************)
\* ParticleSystem.reset / WorkerParticleSystem.reset: state.fill(INACTIVE)
CPUReset(st) == [i \in Slots |-> [st[i] EXCEPT !.state = INACTIVE]]

\* GPUComputeParticles.reset: overwrite the buffer with zeros, state INACTIVE
GPUReset(st) == [i \in Slots |-> EmptyRow]

\* The worker backend's reset fills the shared state array while the workers
\* may be running a task: the workers whose iteration may already have read
\* the state of its slot (const s = state[i]) and not yet stored its results
ResetRacing ==
    IF backendType # WORKERS THEN {}
    ELSE {w \in Workers : /\ workerQueue[w] # <<>>
                          /\ workerHeld[w] = None
                          /\ workerCursor[w] < Head(workerQueue[w]).endIdx
                          /\ store[workerCursor[w]].state # INACTIVE}

\* HybridParticleSystem.reset, the iterations of the workers in T having read
\* their slot's state before state.fill(4) and storing their results after it
ResetDuring(T) ==
    /\ initPc = "done"
    /\ drvPc # "sync"
    /\ count' = 0
    /\ workerHeld' = [w \in Workers |->
          IF w \in T THEN Some(store[workerCursor[w]].state) ELSE workerHeld[w]]
    /\ IF backendType = WEBGPU
       THEN /\ store' = GPUReset(store)
            /\ UNCHANGED <<bcount, highestActiveIndex>>
       ELSE /\ store' = CPUReset(store)
            /\ bcount' = 0
            /\ highestActiveIndex' = 0
    /\ life' = [i \in Slots |-> NoLife]
    /\ lastOp' = "reset"
    /\ lastArgs' = None
    /\ UNCHANGED <<lastReturn, lastStep, partialCopy>>
    /\ UNCHANGED <<initVars, pendingUpdates, workerQueue, workerCursor, gpuVars,
                   drvVars>>
    /\ UNCHANGED auxVars

\* reset taken as one step
HybridReset == ResetDuring({})

(***************************************************************************)
(* update                                                                  *)
(***************************************************************************)
ActiveBelow(st, n) == {i \in Slots : i < n /\ st[i].state # INACTIVE}
SetMax(S) == CHOOSE m \in S : \A x \in S : x <= m
HighestActive(st, n) ==
    IF ActiveBelow(st, n) = {} THEN 0 ELSE SetMax(ActiveBelow(st, n))

\* ParticleSystem.update: one synchronous loop over [0, count); the returned
\* activeCount and highestActive count every slot that was not INACTIVE when
\* the loop reached it
CPUUpdate(st, n, dt, time, draws) ==
    [store |-> [i \in Slots |->
                  IF i < n THEN CPUStep(st[i], dt, time, draws[i], SDF) ELSE st[i]],
     activeCount |-> Cardinality(ActiveBelow(st, n)),
     highestActive |-> HighestActive(st, n)]

\* PARTICLE_SHADER dispatched over particleCount particles
GPUDispatch(st, particleCount, dt, time, draws) ==
    [i \in Slots |->
       IF i < particleCount THEN GPUKernel(st[i], dt, time, draws[i], SDF)
       ELSE st[i]]

\* WorkerParticleSystem.update: the index ranges posted to the workers
ChunkSize(n) == (n + WorkerCount - 1) \div WorkerCount
WorkerRange(n, w) ==
    [startIdx |-> w * ChunkSize(n),
     endIdx |-> Min(w * ChunkSize(n) + ChunkSize(n), n)]
Dispatched(n) == {w \in Workers : WorkerRange(n, w).startIdx < n}

LifeStep(old, new) == [i \in Slots |-> LifeAfter(life[i], old[i], new[i])]

\* animate: the frame starts an update when none is in progress
\* (single-threaded backend)
UpdateSingleThread(time) ==
    /\ initPc = "done" /\ backendType = SINGLE_THREAD
    /\ ~updateInProgress /\ drvPc = "idle"
    /\ \E draws \in [Slots -> CPUDraws] :
         LET r == CPUUpdate(store, bcount, frameDt, time, draws)
         IN  /\ store' = r.store
             /\ highestActiveIndex' = r.highestActive
             /\ lastReturn' = r.activeCount
             /\ life' = LifeStep(store, r.store)
    /\ lastStep' = [dispatched |-> 0..(bcount - 1), advanced |-> 0..(bcount - 1)]
    /\ updateInProgress' = TRUE
    /\ drvPc' = "sync"
    /\ lastOp' = "other"
    /\ lastArgs' = None
    /\ UNCHANGED <<count, bcount, partialCopy>>
    /\ UNCHANGED <<initVars, workerVars, gpuVars>>
    /\ UNCHANGED auxVars

\* WorkerParticleSystem.update: post one 'update' message per non-empty
\* range, scan the shared state array, return without waiting
UpdateWorkers(time) ==
    /\ initPc = "done" /\ backendType = WORKERS
    /\ ~updateInProgress /\ drvPc = "idle"
    /\ IF bcount = 0
       THEN /\ lastReturn' = 0
            /\ UNCHANGED <<workerVars, highestActiveIndex, lastStep>>
       ELSE /\ \A w \in Dispatched(bcount) : Len(workerQueue[w]) < MaxQueue
            /\ workerQueue' = [w \in Workers |->
                 IF w \in Dispatched(bcount)
                 THEN Append([k \in 1..Len(workerQueue[w]) |->
                                [workerQueue[w][k] EXCEPT !.latest = FALSE]],
                             [startIdx |-> WorkerRange(bcount, w).startIdx,
                              endIdx |-> WorkerRange(bcount, w).endIdx,
                              dt |-> frameDt, time |-> time, latest |-> TRUE])
                 ELSE [k \in 1..Len(workerQueue[w]) |->
                         [workerQueue[w][k] EXCEPT !.latest = FALSE]]]
            /\ workerCursor' = [w \in Workers |->
                 IF w \in Dispatched(bcount) /\ workerQueue[w] = <<>>
                 THEN WorkerRange(bcount, w).startIdx
                 ELSE workerCursor[w]]
            /\ workerHeld' = workerHeld
            /\ pendingUpdates' = Cardinality(Dispatched(bcount))
            /\ highestActiveIndex' = HighestActive(store, bcount)
            /\ lastReturn' = Cardinality(ActiveBelow(store, bcount))
            /\ lastStep' = [dispatched |-> 0..(bcount - 1), advanced |-> {}]
    /\ updateInProgress' = TRUE
    /\ drvPc' = "sync"
    /\ lastOp' = "other"
    /\ lastArgs' = None
    /\ UNCHANGED <<count, store, bcount, life, partialCopy>>
    /\ UNCHANGED <<initVars, gpuVars>>
    /\ UNCHANGED auxVars

\* the row an iteration works on: the slot, under the state it has read
WorkerSeen(w, row) ==
    IF workerHeld[w] = None THEN row ELSE [row EXCEPT !.state = workerHeld[w][1]]

\* the row an iteration leaves: state[i] is stored only on a transition
WorkerWritten(row, seen, new) ==
    IF new.state = seen.state THEN [new EXCEPT !.state = row.state] ELSE new

WorkerLife(w, l, seen, written) ==
    IF workerHeld[w] = None THEN LifeAfter(l, seen, written)
    ELSE LifeAfter([l EXCEPT !.hist = @ \/ seen.state \in {STUCK, BOUNCING}],
                   seen, written)

\* a worker runs one iteration of processParticles of the task at the head of
\* its message queue
WorkerStep(w) ==
    /\ workerQueue[w] # <<>>
    /\ LET task == Head(workerQueue[w])
           i == workerCursor[w]
       IN  /\ i < task.endIdx
           /\ \E rnd \in CPUDraws :
                LET new == WorkerProcess(WorkerSeen(w, store[i]), task.dt,
                                         task.time, rnd, SDF)
                IN  /\ store' = [store EXCEPT ![i] =
                          WorkerWritten(store[i], WorkerSeen(w, store[i]), new)]
                    /\ life' = [life EXCEPT ![i] =
                          WorkerLife(w, life[i], WorkerSeen(w, store[i]),
                                     store'[i])]
           /\ workerCursor' = [workerCursor EXCEPT ![w] = i + 1]
           /\ workerHeld' = [workerHeld EXCEPT ![w] = None]
           /\ lastStep' = IF task.latest
                          THEN [lastStep EXCEPT !.advanced = @ \cup {i}]
                          ELSE lastStep
    /\ lastOp' = IF lastOp = "reset" THEN "reset" ELSE "other"
    /\ lastArgs' = None
    /\ UNCHANGED <<count, bcount, highestActiveIndex, lastReturn, partialCopy,
                   pendingUpdates, workerQueue>>
    /\ UNCHANGED <<initVars, gpuVars, drvVars>>
    /\ UNCHANGED auxVars

\* the task's loop is over: the worker posts 'done' and the orchestrator's
\* onmessage decrements pendingUpdates (a task of the main thread, so it does
\* not run between update's return and the copy that follows in animate)
WorkerDone(w) ==
    /\ drvPc # "sync"
    /\ workerQueue[w] # <<>>
    /\ workerCursor[w] >= Head(workerQueue[w]).endIdx
    /\ workerQueue' = [workerQueue EXCEPT ![w] = Tail(@)]
    /\ workerCursor' = [workerCursor EXCEPT ![w] =
          IF Tail(workerQueue[w]) = <<>> THEN 0
          ELSE Head(Tail(workerQueue[w])).startIdx]
    /\ pendingUpdates' = pendingUpdates - 1
    /\ UNCHANGED <<workerHeld, storeVars, initVars, gpuVars, drvVars>>
    /\ UNCHANGED auxVars

\* an update that starts the read-back and returns without awaiting it
UpdateGPUNoAwait(time) ==
    /\ initPc = "done" /\ backendType = WEBGPU
    /\ ~updateInProgress /\ drvPc = "idle"
    /\ IF count = 0
       THEN /\ gpuParticleData' = None
            /\ gpuStep' = NoStep
            /\ UNCHANGED <<store, gpuPending, life, lastStep>>
       ELSE /\ \E draws \in [Slots -> GPUDraws] :
                 LET new == GPUDispatch(store, count, frameDt, time, draws)
                 IN  /\ store' = new
                     /\ gpuPending' = Some(Snapshot(new, count).rows)
                     /\ gpuStep' = [order |-> <<"dispatch">>,
                                    rows |-> Some(Snapshot(new, count).rows)]
                     /\ life' = LifeStep(store, new)
            /\ lastStep' = [dispatched |-> 0..(count - 1),
                            advanced |-> 0..(count - 1)]
            /\ UNCHANGED gpuParticleData
    /\ lastReturn' = count
    /\ drvPc' = "sync"
    /\ updateInProgress' = TRUE
    /\ lastOp' = "other"
    /\ lastArgs' = None
    /\ UNCHANGED <<count, bcount, highestActiveIndex, partialCopy>>
    /\ UNCHANGED <<initVars, workerVars>>
    /\ UNCHANGED auxVars

\* HybridParticleSystem.update on the GPU backend, up to its await: dispatch
\* the kernel over this.count particles and submit the read-back copy.  With
\* count 0 nothing is dispatched and readBack returns null at once.
UpdateGPU(time) ==
    /\ initPc = "done" /\ backendType = WEBGPU
    /\ ~updateInProgress /\ drvPc = "idle"
    /\ IF count = 0
       THEN /\ gpuParticleData' = None
            /\ gpuStep' = NoStep
            /\ lastReturn' = count
            /\ drvPc' = "sync"
            /\ UNCHANGED <<store, gpuPending, life, lastStep>>
       ELSE /\ \E draws \in [Slots -> GPUDraws] :
                 LET new == GPUDispatch(store, count, frameDt, time, draws)
                 IN  /\ store' = new
                     /\ gpuPending' = Some(Snapshot(new, count).rows)
                     /\ gpuStep' = [order |-> <<"dispatch">>,
                                    rows |-> Some(Snapshot(new, count).rows)]
                     /\ life' = LifeStep(store, new)
            /\ lastStep' = [dispatched |-> 0..(count - 1),
                            advanced |-> 0..(count - 1)]
            /\ drvPc' = "awaiting"
            /\ UNCHANGED <<gpuParticleData, lastReturn>>
    /\ updateInProgress' = TRUE
    /\ lastOp' = "other"
    /\ lastArgs' = None
    /\ UNCHANGED <<count, bcount, highestActiveIndex, partialCopy>>
    /\ UNCHANGED <<initVars, workerVars>>
    /\ UNCHANGED auxVars

\* the staging buffer is mapped: readBack resolves, update returns this.count
GPUReadBackResolves ==
    /\ drvPc = "awaiting"
    /\ gpuParticleData' = gpuPending
    /\ gpuPending' = None
    /\ gpuStep' = [gpuStep EXCEPT !.order = Append(@, "mapped")]
    /\ lastReturn' = count
    /\ drvPc' = "sync"
    /\ UNCHANGED <<count, store, bcount, highestActiveIndex, life, lastOp,
                   lastArgs, lastStep, partialCopy>>
    /\ UNCHANGED <<initVars, workerVars, updateInProgress>>
    /\ UNCHANGED auxVars

\* a rejected read-back that makes the system fall back to the CPU backend
GPUReadBackRejectsFallsBack ==
    /\ drvPc = "awaiting"
    /\ gpuPending' = None
    /\ gpuStep' = NoStep
    /\ updateInProgress' = FALSE
    /\ drvPc' = "idle"
    /\ lastOp' = "threw"
    /\ lastArgs' = None
    /\ backendType' = SINGLE_THREAD
    /\ backend' = "cpu"
    /\ UNCHANGED <<initPc, gpuCompute, gpuInitResult, workerInitResult,
                   workerReady, workerFailed, frameDt>>
    /\ UNCHANGED <<count, store, bcount, highestActiveIndex, lastReturn, life,
                   lastStep, partialCopy>>
    /\ UNCHANGED <<workerVars, gpuParticleData>>
    /\ UNCHANGED auxVars

\* mapAsync rejects and the flag of animate stays up
GPUReadBackRejectsFlagKept ==
    /\ drvPc = "awaiting"
    /\ gpuPending' = None
    /\ gpuStep' = NoStep
    /\ updateInProgress' = TRUE
    /\ drvPc' = "idle"
    /\ lastOp' = "threw"
    /\ lastArgs' = None
    /\ UNCHANGED <<count, store, bcount, highestActiveIndex, lastReturn, life,
                   lastStep, partialCopy>>
    /\ UNCHANGED <<initVars, workerVars, gpuParticleData>>
    /\ UNCHANGED auxVars

\* mapAsync rejects (device lost): update throws, animate catches the error
\* and clears its flag
GPUReadBackRejects ==
    /\ drvPc = "awaiting"
    /\ gpuPending' = None
    /\ gpuStep' = NoStep
    /\ updateInProgress' = FALSE
    /\ drvPc' = "idle"
    /\ lastOp' = "threw"
    /\ lastArgs' = None
    /\ UNCHANGED <<count, store, bcount, highestActiveIndex, lastReturn, life,
                   lastStep, partialCopy>>
    /\ UNCHANGED <<initVars, workerVars, gpuParticleData>>
    /\ UNCHANGED auxVars

\* animate after the await: syncParticleBuffers (copyToBuffers), then the
\* flag is cleared
SyncDriver ==
    /\ drvPc = "sync"
    /\ partialCopy' = (lastStep.advanced # {}
                       /\ lastStep.advanced # lastStep.dispatched)
    /\ updateInProgress' = FALSE
    /\ drvPc' = "idle"
    /\ lastReturn' = -1
    /\ UNCHANGED <<count, store, bcount, highestActiveIndex, life, lastOp,
                   lastArgs, lastStep>>
    /\ gpuStep' = NoStep
    /\ UNCHANGED <<initVars, workerVars, gpuParticleData, gpuPending>>

\* the copy with the mesh attributes left out of the picture
SyncParticleBuffers ==
    /\ SyncDriver
    /\ UNCHANGED auxVars

(***************************************************************************)
(* copyToBuffers: the value handed to setDrawRange                         *)
(***************************************************************************)
\* ParticleSystem.copyToBuffers / WorkerParticleSystem.copyToBuffers
CPUCopyLimit == Min(highestActiveIndex + 1, bcount)

\* GPUComputeParticles.copyToRenderBuffers(particleData, count, ..): i + 1 for
\* the last i < count whose snapshot state is not INACTIVE; beyond the
\* snapshot's length the state reads undefined, which is not INACTIVE
GPUCopyActive(data, n) ==
    {i \in Slots : i < n /\ (i \in DOMAIN data => data[i].state # INACTIVE)}
GPUCopyCount(data, n) ==
    IF data = None THEN 0
    ELSE IF GPUCopyActive(data[1], n) = {} THEN 0
    ELSE SetMax(GPUCopyActive(data[1], n)) + 1

\* HybridParticleSystem.copyToBuffers
copyToBuffers ==
    IF backendType = NULL THEN 0
    ELSE IF backendType = WEBGPU THEN GPUCopyCount(gpuParticleData, count)
    ELSE IF backend # NULL THEN CPUCopyLimit
    ELSE 0

(***************************************************************************)
(* countOnText                                                             *)
(***************************************************************************)
OnText(st) == st \in {STUCK, SLIDING}

\* ParticleSystem.countOnText / WorkerParticleSystem.countOnText
CPUCountOnText(st, n) == Cardinality({i \in Slots : i < n /\ OnText(st[i].state)})

\* HybridParticleSystem.countOnText on the GPU backend: the host snapshot of
\* the last read-back, scanned below this.count
GPUCountOnText(data, n) ==
    IF data = None THEN 0
    ELSE Cardinality({i \in Slots : i < n /\ i \in DOMAIN data[1]
                                      /\ OnText(data[1][i].state)})

\* HybridParticleSystem.countOnText
countOnText ==
    IF backendType = NULL THEN 0
    ELSE IF backendType = WEBGPU THEN GPUCountOnText(gpuParticleData, count)
    ELSE IF backend # NULL THEN CPUCountOnText(store, bcount)
    ELSE 0

Next ==
    \/ InitProbeGPU
    \/ InitGPU
    \/ InitProbeWorkers
    \/ \E w \in Workers : WorkerPostsReady(w)
    \/ \E w \in Workers : WorkerFails(w)
    \/ InitWorkersReady
    \/ InitSingleThread
    \/ \E args \in SpawnArgs : HybridSpawn(args)
    \/ HybridReset
    \/ \E time \in TimeSet : UpdateSingleThread(time)
    \/ \E time \in TimeSet : UpdateWorkers(time)
    \/ \E w \in Workers : WorkerStep(w)
    \/ \E w \in Workers : WorkerDone(w)
    \/ \E time \in TimeSet : UpdateGPU(time)
    \/ GPUReadBackResolves
    \/ GPUReadBackRejects
    \/ SyncParticleBuffers

Spec == Init /\ [][Next]_vars

(***************************************************************************)
(* The worker backend in use, reset taken at the granularity of its stores *)
(* to the shared arrays: HybridParticleSystem.init has committed to        *)
(* WORKERS, the workers run their tasks while the orchestrating thread     *)
(* spawns, resets and updates.                                             *)
(***************************************************************************)
SharedInit ==
    /\ initPc = "done"
    /\ frameDt \in DtSet
    /\ backendType = WORKERS
    /\ backend = "worker"
    /\ gpuCompute = "failed"
    /\ gpuInitResult = "false"
    /\ workerInitResult = "true"
    /\ workerReady = Workers
    /\ workerFailed = {}
    /\ NoParticles
    /\ bounceChance = BOUNCE_CHANCE
    /\ kin = None
    /\ kout = NoOutputs
    /\ NoFieldFlow
    /\ NoPool
    /\ NoGeo
    /\ NoRender
    /\ NoIdb

SharedReset == \E T \in SUBSET ResetRacing : ResetDuring(T)

SharedNext ==
    \/ \E args \in SpawnArgs : HybridSpawn(args)
    \/ SharedReset
    \/ \E time \in TimeSet : UpdateWorkers(time)
    \/ \E w \in Workers : WorkerStep(w)
    \/ \E w \in Workers : WorkerDone(w)
    \/ SyncParticleBuffers

SharedSpec == SharedInit /\ [][SharedNext]_vars

\* The event loop runs a continuation of init once it is ready to run; nothing
\* obliges a worker to post 'ready'.
FairSpec ==
    /\ Spec
    /\ WF_vars(InitProbeGPU)
    /\ WF_vars(InitGPU)
    /\ WF_vars(InitProbeWorkers)
    /\ WF_vars(InitWorkersReady)
    /\ WF_vars(InitSingleThread)

(***************************************************************************)
(* The three per-particle kernels side by side: one particle row, field,   *)
(* dt, time and random draws are given to the loop body of                 *)
(* ParticleSystem.update, to that of processParticles and to the shader's  *)
(* main; the row one of them returns is the input of the next step.        *)
(***************************************************************************)
MaxKernelSteps == 4
KernelRows == {RowHit, RowLowUp, RowEdge, RowBehind}
\* the shader's rand() reaches 1.0, Math.random() does not
KernelDraws == {Draw(0, 500), Draw(500, 500), Draw(1000, 500)}
KernelFields == {"plate", "offset"}
FieldOf(id) == IF id = "plate" THEN SDF ELSE SDFOffset
\* update(dt, time): the intervals of the steps under study
KernelDts == DtSet \cup {500}
KernelInputs ==
    [row : KernelRows, dt : KernelDts, time : TimeSet, rnd : KernelDraws,
     sdf : KernelFields, step : {0}]
KernelBackends == {"cpu", "worker", "gpu"}

systemVars == <<initVars, workerVars, gpuVars, drvVars, storeVars>>

KernelInit ==
    /\ initPc = "none"
    /\ frameDt = 0
    /\ Constructed
    /\ bounceChance \in {BOUNCE_CHANCE, 1000}
    /\ kin \in {Some(i) : i \in KernelInputs}
    /\ kout = NoOutputs
    /\ NoFieldFlow
    /\ NoPool
    /\ NoGeo
    /\ NoRender
    /\ NoIdb

\* the backends that can be given the draws of the step under study
CanRun(b) == b = "gpu" \/ kin[1].rnd.decide < 1000

KernelSingleThread ==
    /\ kin # None /\ kout.cpu = None /\ CanRun("cpu")
    /\ kout' = [kout EXCEPT !.cpu =
          Some(CPUStep(kin[1].row, kin[1].dt, kin[1].time, kin[1].rnd,
                       FieldOf(kin[1].sdf)))]
    /\ UNCHANGED <<systemVars, bounceChance, kin, fieldVars, poolVars, geoVars, renderVars, idbVars>>

KernelWorker ==
    /\ kin # None /\ kout.worker = None /\ CanRun("worker")
    /\ kout' = [kout EXCEPT !.worker =
          Some(WorkerProcess(kin[1].row, kin[1].dt, kin[1].time, kin[1].rnd,
                             FieldOf(kin[1].sdf)))]
    /\ UNCHANGED <<systemVars, bounceChance, kin, fieldVars, poolVars, geoVars, renderVars, idbVars>>

KernelGPU ==
    /\ kin # None /\ kout.gpu = None
    /\ kout' = [kout EXCEPT !.gpu =
          Some(GPUKernel(kin[1].row, kin[1].dt, kin[1].time, kin[1].rnd,
                         FieldOf(kin[1].sdf)))]
    /\ UNCHANGED <<systemVars, bounceChance, kin, fieldVars, poolVars, geoVars, renderVars, idbVars>>

\* the same step in the ParticleSystem of main-gpu.js
KernelEarlier ==
    /\ kin # None /\ kout.earlier = None /\ CanRun("cpu")
    /\ kout' = [kout EXCEPT !.earlier =
          Some(EarlierStep(kin[1].row, kin[1].dt, kin[1].time, kin[1].rnd,
                           FieldOf(kin[1].sdf)))]
    /\ UNCHANGED <<systemVars, bounceChance, kin, fieldVars, poolVars, geoVars, renderVars, idbVars>>

\* the next step starts from the row backend b returned
KernelAdvance(b, dt, rnd) ==
    /\ kin # None
    /\ kin[1].step < MaxKernelSteps
    /\ \A c \in KernelBackends : CanRun(c) => kout[c] # None
    /\ kout[b] # None
    /\ kin' = Some([kin[1] EXCEPT !.row = kout[b][1], !.dt = dt, !.rnd = rnd,
                                  !.step = @ + 1])
    /\ kout' = NoOutputs
    /\ UNCHANGED <<systemVars, bounceChance, fieldVars, poolVars, geoVars, renderVars, idbVars>>

KernelNext ==
    \/ KernelSingleThread
    \/ KernelWorker
    \/ KernelGPU
    \/ KernelEarlier
    \/ \E b \in KernelBackends, dt \in KernelDts, rnd \in KernelDraws :
         KernelAdvance(b, dt, rnd)

KernelSpec == KernelInit /\ [][KernelNext]_vars

\* the integrated particle of the step under study, and whether a backend's
\* collision test accepts its impact
KernelMoved == Integrate(kin[1].row, kin[1].dt)
ImpactAccepted(b) ==
    Accepts(KernelMoved,
            sampleSDF(FieldOf(kin[1].sdf), KernelMoved.posX, KernelMoved.posY,
                      KernelMoved.posZ),
            IF b = "gpu"
            THEN sdfGradientGPU(FieldOf(kin[1].sdf), KernelMoved.posX,
                                KernelMoved.posY, KernelMoved.posZ)
            ELSE sdfGradient(FieldOf(kin[1].sdf), KernelMoved.posX,
                             KernelMoved.posY, KernelMoved.posZ),
            FieldOf(kin[1].sdf))

(***************************************************************************)
(* The collision field on its way to the particle system:                  *)
(* initParticleSystem, getCachedSDF / cacheSDF, generateSDFAsync and       *)
(* validateSDF.  A field is named by an id; FieldData gives its samples.   *)
(***************************************************************************)
SparseLen == 2100
FieldIds == {"good", "flat", "far", "empty", "edge", "sparse"}

\* good: the plate field; flat: one value everywhere; far: no value near the
\* surface; empty: no samples; edge: a range of exactly 0.01; sparse: one
\* near-surface sample, at an odd index
FieldData(id) ==
    IF id = "good" THEN SDFData
    ELSE IF id = "flat" THEN [i \in 0..63 |-> 5000]
    ELSE IF id = "far" THEN [i \in 0..63 |-> 2000 + i]
    ELSE IF id = "empty" THEN [i \in {} |-> 0]
    ELSE IF id = "edge" THEN [i \in 0..63 |-> IF i = 0 THEN 500 ELSE 510]
    ELSE [i \in 0..(SparseLen - 1) |-> IF i = 21 THEN 500 ELSE 5000]

SetMin(S) == CHOOSE m \in S : \A x \in S : m <= x

\* for (i = 0; i < total; i += step): the values the loop looks at
Sampled(data, step) == {data[i] : i \in {j \in DOMAIN data : j % step = 0}}
SampleRange(data, step) == SetMax(Sampled(data, step)) - SetMin(Sampled(data, step))

VALID_RANGE == 10
VALID_MIN == 1000
VALIDATE_SAMPLES == 1000
CACHE_SAMPLES == 100

\* validateSDF(result): an absent result fails; an empty array leaves
\* range = -Infinity, which fails the range test
ValidateStep(total) == total \div Min(VALIDATE_SAMPLES, total)
validateSDF(result) ==
    IF result = None THEN FALSE
    ELSE LET data == FieldData(result[1])
             total == Cardinality(DOMAIN data)
         IN  IF total = 0 THEN FALSE
             ELSE IF SampleRange(data, ValidateStep(total)) < VALID_RANGE THEN FALSE
             ELSE IF SetMin(Sampled(data, ValidateStep(total))) > VALID_MIN THEN FALSE
             ELSE TRUE

\* initParticleSystem's check of a cached record
CacheStep(total) == Max(1, total \div CACHE_SAMPLES)
CacheValid(id) ==
    LET data == FieldData(id)
        total == Cardinality(DOMAIN data)
    IN  /\ total > 0
        /\ SampleRange(data, CacheStep(total)) > VALID_RANGE
        /\ SetMin(Sampled(data, CacheStep(total))) < VALID_MIN

\* what a generation strategy can do: be unavailable, throw, return nothing,
\* return a field
Attempt(s, kind, result) == [strategy |-> s, kind |-> kind, result |-> result]
Results == {None} \cup {Some(f) : f \in FieldIds}

FieldInit ==
    /\ initPc = "none"
    /\ frameDt = 0
    /\ Constructed
    /\ bounceChance = BOUNCE_CHANCE
    /\ kin = None
    /\ kout = NoOutputs
    /\ fieldPc = "start"
    /\ cacheKey \in BOOLEAN
    /\ cacheDB \in Results
    /\ cacheRead = "none"
    /\ cacheWrite = None
    /\ sdfData = None
    /\ lastSDFBackend = "unknown"
    /\ attempts = <<>>
    /\ particles = "none"
    /\ NoPool
    /\ NoGeo
    /\ NoRender
    /\ NoIdb

\* initParticleSystem without a cache key: straight to generateSDFAsync
StartWithoutKey ==
    /\ fieldPc = "start" /\ ~cacheKey
    /\ fieldPc' = "genGPU"
    /\ cacheRead' = "noKey"
    /\ UNCHANGED <<cacheKey, cacheDB, cacheWrite, sdfData, lastSDFBackend,
                   attempts, particles>>
    /\ UNCHANGED <<systemVars, kernelVars, poolVars, geoVars, renderVars, idbVars>>

\* sdfData = await getCachedSDF(cacheKey), and the check of what it returned.
\* openDB rejecting is caught inside getCachedSDF (null); the get request
\* failing rejects the promise getCachedSDF returned, which lands in
\* initParticleSystem's catch.
ReadCache(outcome) ==
    /\ fieldPc = "start" /\ cacheKey
    /\ IF outcome = "openError"
       THEN /\ cacheRead' = "openError"
            /\ fieldPc' = "genGPU"
            /\ UNCHANGED sdfData
       ELSE IF outcome = "getError"
       THEN /\ cacheRead' = "getError"
            /\ fieldPc' = "syncFallback"
            /\ UNCHANGED sdfData
       ELSE IF cacheDB = None
       THEN /\ cacheRead' = "miss"
            /\ fieldPc' = "genGPU"
            /\ UNCHANGED sdfData
       ELSE IF CacheValid(cacheDB[1])
       THEN /\ cacheRead' = "used"
            /\ sdfData' = cacheDB
            /\ fieldPc' = "handOver"
       ELSE /\ cacheRead' = "discarded"
            /\ sdfData' = None
            /\ fieldPc' = "genGPU"
    /\ UNCHANGED <<cacheKey, cacheDB, cacheWrite, lastSDFBackend, attempts,
                   particles>>
    /\ UNCHANGED <<systemVars, kernelVars, poolVars, geoVars, renderVars, idbVars>>

\* generateSDFAsync, first strategy: skipped when isWebGPUSDFAvailable() is
\* false; a thrown error and a result that is null or fails validateSDF lead
\* to the next strategy
GenerateGPU(kind, result) ==
    /\ fieldPc = "genGPU"
    /\ kind = "returned" \/ result = None
    /\ attempts' = Append(attempts, Attempt("WebGPU", kind, result))
    /\ IF kind = "returned" /\ result # None /\ validateSDF(result)
       THEN /\ lastSDFBackend' = "WebGPU"
            /\ sdfData' = result
            /\ fieldPc' = "generated"
       ELSE /\ fieldPc' = "genParallel"
            /\ UNCHANGED <<lastSDFBackend, sdfData>>
    /\ UNCHANGED <<cacheKey, cacheDB, cacheRead, cacheWrite, particles>>
    /\ UNCHANGED <<systemVars, kernelVars, poolVars, geoVars, renderVars, idbVars>>

\* second strategy: generateSDFParallel
GenerateParallel(kind, result) ==
    /\ fieldPc = "genParallel"
    /\ kind # "unavailable"
    /\ kind = "returned" \/ result = None
    /\ attempts' = Append(attempts, Attempt("Multi-Worker", kind, result))
    /\ IF kind = "returned" /\ result # None /\ validateSDF(result)
       THEN /\ lastSDFBackend' = "Multi-Worker"
            /\ sdfData' = result
            /\ fieldPc' = "generated"
       ELSE /\ fieldPc' = "genSingle"
            /\ UNCHANGED <<lastSDFBackend, sdfData>>
    /\ UNCHANGED <<cacheKey, cacheDB, cacheRead, cacheWrite, particles>>
    /\ UNCHANGED <<systemVars, kernelVars, poolVars, geoVars, renderVars, idbVars>>

\* last strategy: lastSDFBackend = 'Single-Worker'; return
\* generateSDFSingleWorker(..), whose promise resolves with whatever the
\* worker posts, or rejects on worker.onerror
GenerateSingle(kind, result) ==
    /\ fieldPc = "genSingle"
    /\ \/ kind = "threw" /\ result = None
       \/ kind = "returned" /\ result # None
    /\ attempts' = Append(attempts, Attempt("Single-Worker", kind, result))
    /\ lastSDFBackend' = "Single-Worker"
    /\ IF kind = "returned"
       THEN /\ sdfData' = result
            /\ fieldPc' = "generated"
       ELSE /\ fieldPc' = "syncFallback"
            /\ UNCHANGED sdfData
    /\ UNCHANGED <<cacheKey, cacheDB, cacheRead, cacheWrite, particles>>
    /\ UNCHANGED <<systemVars, kernelVars, poolVars, geoVars, renderVars, idbVars>>

\* back in initParticleSystem: if (cacheKey) cacheSDF(cacheKey, sdfData)
\* .catch(warn), not awaited
StartCacheWrite ==
    /\ fieldPc = "generated"
    /\ cacheWrite' = IF cacheKey THEN Some([field |-> sdfData[1], status |-> "pending"])
                     ELSE None
    /\ fieldPc' = "handOver"
    /\ UNCHANGED <<cacheKey, cacheDB, cacheRead, sdfData, lastSDFBackend,
                   attempts, particles>>
    /\ UNCHANGED <<systemVars, kernelVars, poolVars, geoVars, renderVars, idbVars>>

\* the put request succeeds, or the write fails and .catch logs it
CacheWriteSettles(ok) ==
    /\ cacheWrite # None
    /\ cacheWrite[1].status = "pending"
    /\ cacheWrite' = Some([cacheWrite[1] EXCEPT !.status = IF ok THEN "ok" ELSE "failed"])
    /\ cacheDB' = IF ok THEN Some(cacheWrite[1].field) ELSE cacheDB
    /\ UNCHANGED <<fieldPc, cacheKey, cacheRead, sdfData, lastSDFBackend,
                   attempts, particles>>
    /\ UNCHANGED <<systemVars, kernelVars, poolVars, geoVars, renderVars, idbVars>>

\* particles = new HybridParticleSystem(..); await particles.init(sdfData)
HandOver ==
    /\ fieldPc = "handOver"
    /\ particles' = "hybrid"
    /\ fieldPc' = "init"
    /\ initPc' = "probeGPU"
    /\ UNCHANGED <<backendType, backend, gpuCompute, gpuInitResult,
                   workerInitResult, workerReady, workerFailed, frameDt>>
    /\ UNCHANGED <<cacheKey, cacheDB, cacheRead, cacheWrite, sdfData,
                   lastSDFBackend, attempts>>
    /\ UNCHANGED <<workerVars, gpuVars, drvVars, storeVars, kernelVars, poolVars, geoVars, renderVars, idbVars>>

\* the catch block: sdfData = generateSDF(..) on the main thread, then
\* particles = new ParticleSystem(..); particles.setSDF(sdfData)
SyncFallback(f) ==
    /\ fieldPc = "syncFallback"
    /\ sdfData' = Some(f)
    /\ particles' = "plain"
    /\ fieldPc' = "ready"
    /\ UNCHANGED <<cacheKey, cacheDB, cacheRead, cacheWrite, lastSDFBackend,
                   attempts>>
    /\ UNCHANGED <<systemVars, kernelVars, poolVars, geoVars, renderVars, idbVars>>

AttemptKinds == {"unavailable", "threw", "returned"}

FieldNext ==
    \/ StartWithoutKey
    \/ \E outcome \in {"openError", "getError", "read"} : ReadCache(outcome)
    \/ \E kind \in AttemptKinds, result \in Results : GenerateGPU(kind, result)
    \/ \E kind \in AttemptKinds, result \in Results : GenerateParallel(kind, result)
    \/ \E kind \in AttemptKinds, result \in Results : GenerateSingle(kind, result)
    \/ StartCacheWrite
    \/ \E ok \in BOOLEAN : CacheWriteSettles(ok)
    \/ HandOver
    \/ \E f \in FieldIds : SyncFallback(f)
    \/ InitProbeGPU
    \/ InitGPU
    \/ InitProbeWorkers
    \/ \E w \in Workers : WorkerPostsReady(w)
    \/ \E w \in Workers : WorkerFails(w)
    \/ InitWorkersReady
    \/ InitSingleThread

FieldSpec == FieldInit /\ [][FieldNext]_vars

(***************************************************************************)
(* A WorkerParticleSystem on its own, with any number of workers: which    *)
(* index ranges its update posts and which of them can run at once.  The   *)
(* particles' rows play no part in this and are left out.                  *)
(***************************************************************************)
MaxPoolCount == 5
MaxPoolQueue == 2
MAX_WORKERS == 8
PoolWorkers == 0..(MAX_WORKERS - 1)

\* chunkSize = Math.ceil(this.count / this.workerCount)
PoolChunkFloor(n, wc) == n \div wc
PoolChunk(n, wc) == (n + wc - 1) \div wc

\* for (i = 0; i < workerCount; i++): post [startIdx, endIdx) to worker i when
\* startIdx < count, else pendingUpdates--
RECURSIVE PostLoop(_, _, _, _)
PostLoop(i, n, wc, acc) ==
    IF i >= wc THEN acc
    ELSE IF i * PoolChunk(n, wc) < n
    THEN PostLoop(i + 1, n, wc,
                  [acc EXCEPT !.ranges = Append(@,
                      [worker |-> i,
                       startIdx |-> i * PoolChunk(n, wc),
                       endIdx |-> Min(i * PoolChunk(n, wc) + PoolChunk(n, wc), n)])])
    ELSE PostLoop(i + 1, n, wc, [acc EXCEPT !.pending = @ - 1])
PoolDispatch(n, wc) == PostLoop(0, n, wc, [ranges |-> <<>>, pending |-> wc])

\* the range posted to worker w by a dispatch, if any
PostedTo(d, w) ==
    IF \E k \in 1..Len(d.ranges) : d.ranges[k].worker = w
    THEN <<d.ranges[CHOOSE k \in 1..Len(d.ranges) : d.ranges[k].worker = w]>>
    ELSE <<>>

PoolInit ==
    /\ initPc = "none"
    /\ frameDt = 0
    /\ Constructed
    /\ bounceChance = BOUNCE_CHANCE
    /\ kin = None
    /\ kout = NoOutputs
    /\ NoFieldFlow
    /\ NoGeo
    /\ NoRender
    /\ NoIdb
    /\ poolSize \in 1..MAX_WORKERS
    /\ poolCount = 0
    /\ poolQueue = [w \in PoolWorkers |-> <<>>]
    /\ poolPending = 0
    /\ poolPosted = None

\* spawn: while (i < count && this.count < this.max) this.count++
PoolSpawn(n) ==
    /\ poolSize > 0
    /\ poolCount < MaxPoolCount
    /\ poolCount' = Min(poolCount + n, MaxPoolCount)
    /\ UNCHANGED <<poolSize, poolQueue, poolPending, poolPosted>>
    /\ UNCHANGED <<systemVars, kernelVars, fieldVars, geoVars, renderVars, idbVars>>

\* reset: this.count = 0
PoolReset ==
    /\ poolSize > 0
    /\ poolCount > 0
    /\ poolCount' = 0
    /\ UNCHANGED <<poolSize, poolQueue, poolPending, poolPosted>>
    /\ UNCHANGED <<systemVars, kernelVars, fieldVars, geoVars, renderVars, idbVars>>

\* update(dt, time) with count > 0: post the ranges and return at once
PoolUpdate ==
    /\ poolSize > 0
    /\ poolCount > 0
    /\ \A w \in PoolWorkers : Len(poolQueue[w]) < MaxPoolQueue
    /\ poolQueue' = [w \in PoolWorkers |->
          poolQueue[w] \o PostedTo(PoolDispatch(poolCount, poolSize), w)]
    /\ poolPending' = PoolDispatch(poolCount, poolSize).pending
    /\ poolPosted' = Some([count |-> poolCount,
                           ranges |-> PoolDispatch(poolCount, poolSize).ranges])
    /\ UNCHANGED <<poolSize, poolCount>>
    /\ UNCHANGED <<systemVars, kernelVars, fieldVars, geoVars, renderVars, idbVars>>

\* worker w finishes the task it is running (the oldest message it was sent)
\* and posts 'done'; the pool's onmessage decrements pendingUpdates
PoolWorkerDone(w) ==
    /\ poolSize > 0
    /\ poolQueue[w] # <<>>
    /\ poolQueue' = [poolQueue EXCEPT ![w] = Tail(@)]
    /\ poolPending' = poolPending - 1
    /\ UNCHANGED <<poolSize, poolCount, poolPosted>>
    /\ UNCHANGED <<systemVars, kernelVars, fieldVars, geoVars, renderVars, idbVars>>

PoolNext ==
    \/ \E n \in 1..2 : PoolSpawn(n)
    \/ PoolReset
    \/ PoolUpdate
    \/ \E w \in PoolWorkers : PoolWorkerDone(w)

PoolSpec == PoolInit /\ [][PoolNext]_vars

\* the tasks that can be running: the oldest message of each worker
PoolRunning == {w \in PoolWorkers : poolQueue[w] # <<>>}
Overlap(a, b) == a.startIdx < b.endIdx /\ b.startIdx < a.endIdx

(***************************************************************************)
(* Repeated update calls on one particle: the loop body of one backend is  *)
(* applied to the row it returned, frame after frame, with a fixed dt > 0  *)
(* and any random draws.                                                   *)
(***************************************************************************)
LifeDts == {500, 1000}
\* the three kernels and the ParticleSystem of main-gpu.js
LifeBackends == KernelBackends \cup {"earlier"}
KernelStepOf(b, row, dt, time, rnd, sdf) ==
    IF b = "cpu" THEN CPUStep(row, dt, time, rnd, sdf)
    ELSE IF b = "worker" THEN WorkerProcess(row, dt, time, rnd, sdf)
    ELSE IF b = "gpu" THEN GPUKernel(row, dt, time, rnd, sdf)
    ELSE EarlierStep(row, dt, time, rnd, sdf)

LifeInit ==
    /\ initPc = "none"
    /\ frameDt = 0
    /\ Constructed
    /\ bounceChance \in {BOUNCE_CHANCE, 1000}
    /\ kin \in {Some(i) : i \in {k \in KernelInputs : k.dt \in LifeDts}}
    /\ kout \in {[NoOutputs EXCEPT ![b] = Some(r)] : b \in LifeBackends, r \in KernelRows}
    /\ \E b \in LifeBackends : kout[b] = Some(kin[1].row)
    /\ NoFieldFlow
    /\ NoPool
    /\ NoGeo
    /\ NoRender
    /\ NoIdb

\* one more update(dt, time): the particle's row goes through the loop body
LifeUpdate(b, rnd) ==
    /\ kin # None
    /\ kout[b] # None
    /\ b = "gpu" \/ rnd.decide < 1000
    /\ kout' = [kout EXCEPT ![b] =
          Some(KernelStepOf(b, kout[b][1], kin[1].dt, kin[1].time, rnd,
                            FieldOf(kin[1].sdf)))]
    /\ kin' = Some([kin[1] EXCEPT !.step = 1 - @])
    /\ UNCHANGED <<systemVars, bounceChance, fieldVars, poolVars, geoVars, renderVars, idbVars>>

LifeNext == \E b \in LifeBackends, rnd \in KernelDraws : LifeUpdate(b, rnd)
\* the frame counter (kept modulo 2) moves on: animate calls update again
NextFrame == kin # None /\ kin' = Some([kin[1] EXCEPT !.step = 1 - @])
\* update is called again on every frame
LifeSpec == LifeInit /\ [][LifeNext]_vars /\ WF_kin(NextFrame)


(***************************************************************************)
(* The particle system with the mesh attributes it is copied into: the     *)
(* driver's syncParticleBuffers hands the position and state attributes to *)
(* copyToBuffers after every update.                                       *)
(***************************************************************************)
\* what a Float32Array stores when it is given undefined
NaN == -1000000000
RenderOf(row) ==
    RenderRow(row.posX, row.posY, row.posZ, row.state, row.stickTime, row.size,
              row.slideSpeed)

\* ParticleSystem.copyToBuffers / WorkerParticleSystem.copyToBuffers: every
\* slot below the limit is copied
CPUCopyRows(dst) ==
    [i \in Slots |-> IF i < CPUCopyLimit THEN RenderOf(store[i]) ELSE dst[i]]

\* GPUComputeParticles.copyToRenderBuffers: a slot whose snapshot state is
\* INACTIVE is passed over; beyond the snapshot's length every read is
\* undefined
GPUCopyRows(data, n, dst) ==
    IF data = None THEN dst
    ELSE [i \in Slots |->
            IF i >= n THEN dst[i]
            ELSE IF i \notin DOMAIN data[1]
                 THEN RenderRow(NaN, NaN, NaN, NaN, NaN, NaN, NaN)
            ELSE IF data[1][i].state = INACTIVE THEN dst[i]
            ELSE RenderOf(data[1][i])]

\* HybridParticleSystem.copyToBuffers, its effect on the attributes
CopyRows(dst) ==
    IF backendType = NULL THEN dst
    ELSE IF backendType = WEBGPU THEN GPUCopyRows(gpuParticleData, count, dst)
    ELSE IF backend # NULL THEN CPUCopyRows(dst)
    ELSE dst

\* the frames this study follows
MaxCopies == 3

\* syncParticleBuffers, then animate clears its flag
SyncRender ==
    /\ SyncDriver
    /\ render.copies < MaxCopies
    /\ render' = [rows |-> CopyRows(render.rows), copies |-> render.copies + 1]
    /\ UNCHANGED <<kernelVars, fieldVars, poolVars, geoVars, idbVars>>

\* the frames of this study: one second long, one drop spawned at a time, and
\* every read-back resolves
RenderInit == Init /\ frameDt = 1000
RenderSpawnArgs == {args \in SpawnArgs : args.n = 1 /\ args.row = RowHit}

RenderNext ==
    \/ InitProbeGPU
    \/ InitGPU
    \/ InitProbeWorkers
    \/ \E w \in Workers : WorkerPostsReady(w)
    \/ \E w \in Workers : WorkerFails(w)
    \/ InitWorkersReady
    \/ InitSingleThread
    \/ \E args \in RenderSpawnArgs : HybridSpawn(args)
    \/ HybridReset
    \/ \E time \in TimeSet : UpdateSingleThread(time)
    \/ \E time \in TimeSet : UpdateWorkers(time)
    \/ \E w \in Workers : WorkerStep(w)
    \/ \E w \in Workers : WorkerDone(w)
    \/ \E time \in TimeSet : UpdateGPU(time)
    \/ GPUReadBackResolves
    \/ SyncRender

RenderSpec == RenderInit /\ [][RenderNext]_vars


(***************************************************************************)
(* sampleSDF on its own: one field (or none) and one world position are    *)
(* given to the sampler of each backend; what it returns is recorded with  *)
(* the indices of the field array it has read.                             *)
(***************************************************************************)
\* a field of one cell (2^3 voxels of 2.0) whose eight entries all differ
SDFCell ==
    [data |-> [i \in 0..7 |-> 100 * ((5 * i + 3) % 8)],
     bbox |-> [min |-> [x |-> 0, y |-> 0, z |-> 0],
               max |-> [x |-> 4000, y |-> 4000, z |-> 4000]],
     resolution |-> 2,
     stepX |-> 2000, stepY |-> 2000, stepZ |-> 2000]
\* a field of one cell around a plate midway between its two planes of voxel
\* centres: the eight entries are equal (1.001)
SDFThin == PlateField(2, 4004, 2002)
SampleFields == {"none", "plate", "offset", "cell", "thin"}
SampleField(id) ==
    IF id = "none" THEN None
    ELSE IF id = "cell" THEN Some(SDFCell)
    ELSE IF id = "thin" THEN Some(SDFThin)
    ELSE Some(FieldOf(id))
SampleCoords == {-600, 0, 400, 999, 1000, 1250, 2002, 2999, 3000, 3500, 4100}
SampleInputs == [sdf : SampleFields, x : SampleCoords, y : SampleCoords,
                 z : SampleCoords]

\* Math.floor((v - min) / step - 0.5)
BaseCell(v, minv, step) == (Div(v - minv, step) - 500) \div 1000

\* the eight indices i000 .. i111
CellIndices(r, x0, y0, z0) ==
    LET i000 == x0 + y0 * r + z0 * r * r
    IN  {i000, i000 + 1, i000 + r, i000 + r + 1, i000 + r * r,
         i000 + r * r + 1, i000 + r * r + r, i000 + r * r + r + 1}

\* the entries of data that sampleSDF reads at (x, y, z)
SampleReads(sdf, x, y, z) ==
    LET x0 == BaseCell(x, sdf.bbox.min.x, sdf.stepX)
        y0 == BaseCell(y, sdf.bbox.min.y, sdf.stepY)
        z0 == BaseCell(z, sdf.bbox.min.z, sdf.stepZ)
    IN  IF OutOfCell(sdf, x0, y0, z0) THEN {}
        ELSE CellIndices(sdf.resolution, x0, y0, z0)

\* sampleSDF with the reads it makes; an entry beyond the array reads
\* undefined and the blend is NaN
SampleWithReads(sdf, x, y, z) ==
    [reads |-> SampleReads(sdf, x, y, z),
     value |-> IF SampleReads(sdf, x, y, z) \subseteq DOMAIN sdf.data
               THEN sampleSDF(sdf, x, y, z)
               ELSE NaN]

\* ParticleSystem.sampleSDF and the worker's sampleSDF: if (!sdf) return 100
SampledOrFar(field, x, y, z) ==
    IF field = None THEN [reads |-> {}, value |-> SDF_FAR]
    ELSE SampleWithReads(field[1], x, y, z)

SampleInit ==
    /\ initPc = "none"
    /\ frameDt = 0
    /\ Constructed
    /\ bounceChance = BOUNCE_CHANCE
    /\ kin \in {Some(i) : i \in SampleInputs}
    /\ kout = NoOutputs
    /\ NoFieldFlow
    /\ NoPool
    /\ NoGeo
    /\ NoRender
    /\ NoIdb

SampleRest ==
    UNCHANGED <<systemVars, bounceChance, kin, fieldVars, poolVars, geoVars,
                renderVars, idbVars>>

SampleSingleThread ==
    /\ kin # None /\ kout.cpu = None
    /\ kout' = [kout EXCEPT !.cpu =
          Some(SampledOrFar(SampleField(kin[1].sdf), kin[1].x, kin[1].y, kin[1].z))]
    /\ SampleRest

SampleWorker ==
    /\ kin # None /\ kout.worker = None
    /\ kout' = [kout EXCEPT !.worker =
          Some(SampledOrFar(SampleField(kin[1].sdf), kin[1].x, kin[1].y, kin[1].z))]
    /\ SampleRest

\* the shader runs only once setSDF has made the bind group
SampleGPU ==
    /\ kin # None /\ kout.gpu = None
    /\ SampleField(kin[1].sdf) # None
    /\ kout' = [kout EXCEPT !.gpu =
          Some(SampleWithReads(SampleField(kin[1].sdf)[1], kin[1].x, kin[1].y, kin[1].z))]
    /\ SampleRest

SampleNext == SampleSingleThread \/ SampleWorker \/ SampleGPU

SampleSpec == SampleInit /\ [][SampleNext]_vars


(***************************************************************************)
(* The cache on its own: the object store 'sdf-data' with the records it   *)
(* holds, and a pruneCache(maxEntries) call, alone or issued by            *)
(* initParticleSystem right after a cacheSDF it does not await.  The       *)
(* transactions are readwrite on the one store, so they run one at a time  *)
(* in the order of their creation; a later reader waits for them.          *)
(***************************************************************************)
MaxCacheKeys == 3
MaxStamp == 2
CacheKeys == 1..MaxCacheKeys
\* a record: its key (the keyPath) and its timestamp, if it has one
CacheEntry(k, t) == [key |-> k, timestamp |-> t]
CacheStamps == {None} \cup {Some(t) : t \in 1..MaxStamp}
CacheStores ==
    {{CacheEntry(k, f[k]) : k \in DOMAIN f} :
        f \in UNION {[K -> CacheStamps] : K \in SUBSET CacheKeys}}

\* a.timestamp || 0
Stamp(e) == IF e.timestamp = None THEN 0 ELSE e.timestamp[1]

\* getAll returns the records in key order and Array.prototype.sort is
\* stable: the order of `entries` after the sort
SortsBefore(a, b) ==
    \/ Stamp(a) < Stamp(b)
    \/ Stamp(a) = Stamp(b) /\ a.key < b.key

\* entries.slice(0, entries.length - maxEntries) of the sorted entries
ToDelete(entries, maxEntries) ==
    IF Cardinality(entries) > maxEntries
    THEN {e \in entries :
            Cardinality({f \in entries : SortsBefore(f, e)})
                < Cardinality(entries) - maxEntries}
    ELSE {}

\* store.put(dataToStore): the record under the key is replaced
PutEntry(entries, e) == {f \in entries : f.key # e.key} \cup {e}

PruneInit ==
    /\ initPc = "none"
    /\ frameDt = 0
    /\ Constructed
    /\ bounceChance = BOUNCE_CHANCE
    /\ kin = None
    /\ kout = NoOutputs
    /\ NoFieldFlow
    /\ NoPool
    /\ NoGeo
    /\ NoRender
    /\ idbEntries \in CacheStores
    /\ idbQueue = <<>>
    /\ pruneState \in {[NoPrune EXCEPT !.n = n] : n \in 0..MaxCacheKeys}

PruneRest ==
    UNCHANGED <<systemVars, kernelVars, fieldVars, poolVars, geoVars, renderVars>>

\* pruneCache(maxEntries) on its own: openDB, then the readwrite transaction
\* with its getAll request; openDB rejecting is caught and logged
CallPrune(opens) ==
    /\ pruneState.status = "none"
    /\ IF opens
       THEN /\ idbQueue' = Append(idbQueue, [op |-> "prune", phase |-> "getAll"])
            /\ pruneState' = [pruneState EXCEPT !.status = "waiting",
                                                !.issued = idbEntries]
       ELSE /\ pruneState' = [pruneState EXCEPT !.status = "noDB",
                                                !.issued = idbEntries]
            /\ UNCHANGED idbQueue
    /\ UNCHANGED idbEntries
    /\ PruneRest

\* cacheSDF(cacheKey, sdfData).catch(..); pruneCache(10): prune first
PruneThenCache(key, now) ==
    /\ pruneState.status = "none"
    /\ idbQueue' = idbQueue \o
          <<[op |-> "prune", phase |-> "getAll"],
            [op |-> "put", entry |-> CacheEntry(key, Some(now))]>>
    /\ pruneState' = [pruneState EXCEPT !.status = "waiting",
                                        !.issued = idbEntries]
    /\ UNCHANGED idbEntries
    /\ PruneRest

\* initParticleSystem: cacheSDF(cacheKey, sdfData).catch(..); pruneCache(10).
\* Neither is awaited; both await openDB() and then create their transaction,
\* cacheSDF first.
CacheThenPrune(key, now) ==
    /\ pruneState.status = "none"
    /\ idbQueue' = idbQueue \o
          <<[op |-> "put", entry |-> CacheEntry(key, Some(now))],
            [op |-> "prune", phase |-> "getAll"]>>
    /\ pruneState' = [pruneState EXCEPT !.status = "waiting",
                                        !.issued = idbEntries]
    /\ UNCHANGED idbEntries
    /\ PruneRest

\* the put request of cacheSDF succeeds, or fails and .catch logs it
RunPut(ok) ==
    /\ idbQueue # <<>>
    /\ Head(idbQueue).op = "put"
    /\ idbEntries' = IF ok THEN PutEntry(idbEntries, Head(idbQueue).entry)
                     ELSE idbEntries
    /\ pruneState' = IF ok THEN [pruneState EXCEPT !.written = Some(Head(idbQueue).entry)]
                     ELSE pruneState
    /\ idbQueue' = Tail(idbQueue)
    /\ PruneRest

\* getAll's onsuccess: the deletes are requested and the promise resolves;
\* onerror resolves it as well
PruneReads(ok) ==
    /\ idbQueue # <<>>
    /\ Head(idbQueue).op = "prune"
    /\ Head(idbQueue).phase = "getAll"
    /\ IF ok
       THEN /\ pruneState' = [pruneState EXCEPT
                                 !.status = "resolved",
                                 !.read = Some(idbEntries),
                                 !.deletes = {e.key : e \in ToDelete(idbEntries, pruneState.n)}]
            /\ idbQueue' = <<[op |-> "prune", phase |-> "delete"]>> \o Tail(idbQueue)
       ELSE /\ pruneState' = [pruneState EXCEPT !.status = "getAllError"]
            /\ idbQueue' = Tail(idbQueue)
    /\ UNCHANGED idbEntries
    /\ PruneRest

\* the delete requests of the transaction run, and it completes
PruneDeletes ==
    /\ idbQueue # <<>>
    /\ Head(idbQueue).op = "prune"
    /\ Head(idbQueue).phase = "delete"
    /\ idbEntries' = {e \in idbEntries : e.key \notin pruneState.deletes}
    /\ idbQueue' = Tail(idbQueue)
    /\ UNCHANGED pruneState
    /\ PruneRest

\* pruneCache has completed on a database that is open: a reader creates its
\* transaction
LaterRead ==
    /\ pruneState.status \in {"resolved", "getAllError"}
    /\ pruneState.observed = None
    /\ \A k \in 1..Len(idbQueue) : idbQueue[k].op # "getAll"
    /\ idbQueue' = Append(idbQueue, [op |-> "getAll"])
    /\ UNCHANGED <<idbEntries, pruneState>>
    /\ PruneRest

\* ... and its request is served
RunLaterRead ==
    /\ idbQueue # <<>>
    /\ Head(idbQueue).op = "getAll"
    /\ pruneState' = [pruneState EXCEPT !.observed = Some(idbEntries)]
    /\ idbQueue' = Tail(idbQueue)
    /\ UNCHANGED idbEntries
    /\ PruneRest

\* Date.now() of the record written: before or after the stamps on record
CacheNows == {1, MaxStamp + 1}

PruneNext ==
    \/ \E opens \in BOOLEAN : CallPrune(opens)
    \/ \E key \in 1..(MaxCacheKeys + 1), now \in CacheNows : CacheThenPrune(key, now)
    \/ \E ok \in BOOLEAN : RunPut(ok)
    \/ \E ok \in BOOLEAN : PruneReads(ok)
    \/ PruneDeletes
    \/ LaterRead
    \/ RunLaterRead

PruneSpec == PruneInit /\ [][PruneNext]_vars

(***************************************************************************)
(* Field generation on its own: pointToTriangleDist, the BVH of the slice  *)
(* workers, and the three generators (sdf-worker.js, sdf-worker-slice.js   *)
(* with generateSDFParallel, the shader of sdf-gpu.js).  Coordinates are   *)
(* integers; a distance is kept as its square, an exact fraction <<n, d>>  *)
(* in lowest terms, so that the comparisons of the code (d < bestDist,     *)
(* aabbDist >= bestDist, min) are those of the squares.  The rounding of   *)
(* f32 and f64 arithmetic is not modelled.                                 *)
(***************************************************************************)
RECURSIVE GCD(_, _)
GCD(a, b) == IF b = 0 THEN a ELSE GCD(b, a % b)
Ratio(n, d) == <<n \div GCD(n, d), d \div GCD(n, d)>>

\* the two values above every distance in the box: the shader's initial
\* minDist = 1000000.0, and Infinity
SHADER_FAR == <<1, 0>>
Infinity == <<2, 0>>
Less(a, b) ==
    IF a[2] = 0 \/ b[2] = 0
    THEN b[2] = 0 /\ (a[2] # 0 \/ a[1] < b[1])
    ELSE a[1] * b[2] < b[1] * a[2]

Tri(ax, ay, az, bx, by, bz, cx, cy, cz) ==
    [ax |-> ax, ay |-> ay, az |-> az, bx |-> bx, by |-> by, bz |-> bz,
     cx |-> cx, cy |-> cy, cz |-> cz]
Dot(ux, uy, uz, vx, vy, vz) == ux * vx + uy * vy + uz * vz
\* Math.sqrt(dx*dx + dy*dy + dz*dz) for dx, dy, dz = x/den, y/den, z/den
Dist(x, y, z, den) == Ratio(x * x + y * y + z * z, den * den)

\* the point base + edge * (num / den), seen from p: the closest point of an
\* edge region
EdgeDist(px, py, pz, ex, ey, ez, num, den) ==
    Dist(px * den - ex * num, py * den - ey * num, pz * den - ez * num, den)

\* pointToTriangleDist, the regions tested in the order of the code; region
\* BC is tested when testBC holds
TriDist(p, tri, testBC) ==
    LET abx == tri.bx - tri.ax
        aby == tri.by - tri.ay
        abz == tri.bz - tri.az
        acx == tri.cx - tri.ax
        acy == tri.cy - tri.ay
        acz == tri.cz - tri.az
        apx == p.x - tri.ax
        apy == p.y - tri.ay
        apz == p.z - tri.az
        d1 == Dot(abx, aby, abz, apx, apy, apz)
        d2 == Dot(acx, acy, acz, apx, apy, apz)
        bpx == p.x - tri.bx
        bpy == p.y - tri.by
        bpz == p.z - tri.bz
        d3 == Dot(abx, aby, abz, bpx, bpy, bpz)
        d4 == Dot(acx, acy, acz, bpx, bpy, bpz)
        vc == d1 * d4 - d3 * d2
        cpx == p.x - tri.cx
        cpy == p.y - tri.cy
        cpz == p.z - tri.cz
        d5 == Dot(abx, aby, abz, cpx, cpy, cpz)
        d6 == Dot(acx, acy, acz, cpx, cpy, cpz)
        vb == d5 * d2 - d1 * d6
        va == d3 * d6 - d5 * d4
    IN  IF d1 <= 0 /\ d2 <= 0
        THEN [dist |-> Dist(apx, apy, apz, 1), region |-> "A"]
        ELSE IF d3 >= 0 /\ d4 <= d3
        THEN [dist |-> Dist(bpx, bpy, bpz, 1), region |-> "B"]
        ELSE IF vc <= 0 /\ d1 >= 0 /\ d3 <= 0
        THEN [dist |-> EdgeDist(apx, apy, apz, abx, aby, abz, d1, d1 - d3),
              region |-> "AB"]
        ELSE IF d6 >= 0 /\ d5 <= d6
        THEN [dist |-> Dist(cpx, cpy, cpz, 1), region |-> "C"]
        ELSE IF vb <= 0 /\ d2 >= 0 /\ d6 <= 0
        THEN [dist |-> EdgeDist(apx, apy, apz, acx, acy, acz, d2, d2 - d6),
              region |-> "AC"]
        ELSE IF testBC /\ va <= 0 /\ (d4 - d3) >= 0 /\ (d5 - d6) >= 0
        THEN [dist |-> EdgeDist(bpx, bpy, bpz, tri.cx - tri.bx, tri.cy - tri.by,
                                tri.cz - tri.bz, d4 - d3, (d4 - d3) + (d5 - d6)),
              region |-> "BC"]
        ELSE [dist |-> Dist(apx * (va + vb + vc) - abx * vb - acx * vc,
                            apy * (va + vb + vc) - aby * vb - acy * vc,
                            apz * (va + vb + vc) - abz * vb - acz * vc,
                            va + vb + vc),
              region |-> "face"]

\* a pointToTriangleDist without the test of the region of edge BC
pointToTriangleDistNoBC(p, tri) == TriDist(p, tri, FALSE)

pointToTriangleDist(p, tri) == TriDist(p, tri, TRUE)

\* ---- the BVH of sdf-worker-slice.js ----
MIN_TRIS == 4
MAX_DEPTH == 12

TriXs(tris) == UNION {{tris[i].ax, tris[i].bx, tris[i].cx} : i \in DOMAIN tris}
TriYs(tris) == UNION {{tris[i].ay, tris[i].by, tris[i].cy} : i \in DOMAIN tris}
TriZs(tris) == UNION {{tris[i].az, tris[i].bz, tris[i].cz} : i \in DOMAIN tris}

\* getCoord: the centroid along the axis, compared through the sum of the
\* three coordinates
Coord(t, axis) ==
    IF axis = "x" THEN t.ax + t.bx + t.cx
    ELSE IF axis = "y" THEN t.ay + t.by + t.cy
    ELSE t.az + t.bz + t.cz

\* the axis along which the node is largest
SplitAxis(sizeX, sizeY, sizeZ) ==
    IF sizeX >= sizeY /\ sizeX >= sizeZ THEN "x"
    ELSE IF sizeY >= sizeZ THEN "y"
    ELSE "z"

\* triangles.sort((a, b) => getCoord(a) - getCoord(b)): a stable sort
RECURSIVE InsertSorted(_, _, _)
InsertSorted(t, s, axis) ==
    IF s = <<>> THEN <<t>>
    ELSE IF Coord(t, axis) < Coord(Head(s), axis) THEN <<t>> \o s
    ELSE <<Head(s)>> \o InsertSorted(t, Tail(s), axis)
RECURSIVE SortTris(_, _)
SortTris(s, axis) ==
    IF s = <<>> THEN <<>>
    ELSE InsertSorted(s[Len(s)], SortTris(SubSeq(s, 1, Len(s) - 1), axis), axis)

BVHNode(tris, left, right, leaf) ==
    [minX |-> SetMin(TriXs(tris)), minY |-> SetMin(TriYs(tris)),
     minZ |-> SetMin(TriZs(tris)), maxX |-> SetMax(TriXs(tris)),
     maxY |-> SetMax(TriYs(tris)), maxZ |-> SetMax(TriZs(tris)),
     left |-> left, right |-> right, triangles |-> leaf]

\* a split of the list in the order it came in
UnsortedForSplit(tris) == tris

SortedForSplit(tris) ==
    SortTris(tris, SplitAxis(SetMax(TriXs(tris)) - SetMin(TriXs(tris)),
                             SetMax(TriYs(tris)) - SetMin(TriYs(tris)),
                             SetMax(TriZs(tris)) - SetMin(TriZs(tris))))

\* buildBVH(triangles, depth, maxDepth, minTris) for a non-empty list; a node
\* reference is Some(node), null is None
RECURSIVE buildBVHWith(_, _, _, _)
buildBVHWith(triangles, depth, maxDepth, minTris) ==
    IF Len(triangles) <= minTris \/ depth >= maxDepth
    THEN BVHNode(triangles, None, None, Some(triangles))
    ELSE IF Len(triangles) \div 2 > 0 /\ Len(triangles) - Len(triangles) \div 2 > 0
    THEN BVHNode(triangles,
                 Some(buildBVHWith(SubSeq(SortedForSplit(triangles), 1,
                                          Len(triangles) \div 2),
                                   depth + 1, maxDepth, minTris)),
                 Some(buildBVHWith(SubSeq(SortedForSplit(triangles),
                                          Len(triangles) \div 2 + 1,
                                          Len(triangles)),
                                   depth + 1, maxDepth, minTris)),
                 None)
    ELSE BVHNode(triangles, None, None, Some(SortedForSplit(triangles)))
\* the defaults maxDepth = 12, minTris = 4
buildBVH(triangles, depth) == buildBVHWith(triangles, depth, MAX_DEPTH, MIN_TRIS)

\* a pointToAABBDist that measures to the far corner of the box
AxisFar(v, lo, hi) == Max(Abs(v - lo), Abs(v - hi))
pointToAABBDistFar(p, node) ==
    Dist(AxisFar(p.x, node.minX, node.maxX), AxisFar(p.y, node.minY, node.maxY),
         AxisFar(p.z, node.minZ, node.maxZ), 1)

AxisGap(v, lo, hi) == IF v < lo THEN lo - v ELSE IF v > hi THEN v - hi ELSE 0
pointToAABBDist(p, node) ==
    Dist(AxisGap(p.x, node.minX, node.maxX), AxisGap(p.y, node.minY, node.maxY),
         AxisGap(p.z, node.minZ, node.maxZ), 1)

\* the loop over a leaf's triangles
RECURSIVE ScanTriangles(_, _, _)
ScanTriangles(tris, p, bestDist) ==
    IF tris = <<>> THEN bestDist
    ELSE ScanTriangles(Tail(tris), p,
            IF Less(pointToTriangleDist(p, Head(tris)).dist, bestDist)
            THEN pointToTriangleDist(p, Head(tris)).dist ELSE bestDist)

ChildDist(child, p) ==
    IF child = None THEN Infinity ELSE pointToAABBDist(p, child[1])

RECURSIVE queryBVH(_, _, _)
queryBVH(node, p, bestDist) ==
    IF node = None THEN bestDist
    ELSE IF ~Less(pointToAABBDist(p, node[1]), bestDist) THEN bestDist
    ELSE IF node[1].triangles # None
    THEN ScanTriangles(node[1].triangles[1], p, bestDist)
    ELSE IF Less(ChildDist(node[1].left, p), ChildDist(node[1].right, p))
    THEN queryBVH(node[1].right, p, queryBVH(node[1].left, p, bestDist))
    ELSE queryBVH(node[1].left, p, queryBVH(node[1].right, p, bestDist))

\* ---- the three generators ----
GeoResolution == 3
GeoBox ==
    [min |-> [x |-> 0, y |-> 0, z |-> 0],
     max |-> [x |-> 2 * GeoResolution, y |-> 2 * GeoResolution, z |-> 2 * GeoResolution]]
GeoStep == (GeoBox.max.x - GeoBox.min.x) \div GeoResolution
Voxels(r) == 0..(r * r * r - 1)
Coords(r) == 0..(r - 1)
\* bbox.min + (i + 0.5) * step, per axis
VoxelPoint(x, y, z) ==
    [x |-> VoxelCentre(GeoBox.min.x, GeoStep, x),
     y |-> VoxelCentre(GeoBox.min.y, GeoStep, y),
     z |-> VoxelCentre(GeoBox.min.z, GeoStep, z)]
Zero == <<0, 1>>

\* the array a triple loop over (x, y, z) leaves when it stores Value(x, y, z)
\* at Index(x, y, z) of a zero-filled Float32Array of the given length
Stored(len, r, zs, Index(_, _, _), Value(_, _, _)) ==
    [i \in 0..(len - 1) |->
       IF \E x \in Coords(r), y \in Coords(r), z \in zs : Index(x, y, z) = i
       THEN LET c == CHOOSE c \in Coords(r) \X Coords(r) \X zs :
                        Index(c[1], c[2], c[3]) = i
            IN  Value(c[1], c[2], c[3])
       ELSE Zero]

\* generateSDF of sdf-worker.js: the minimum over the triangle list
SequentialIndex(x, y, z) ==
    x + y * GeoResolution + z * GeoResolution * GeoResolution
generateSDF(tris) ==
    LET Value(x, y, z) == ScanTriangles(tris, VoxelPoint(x, y, z), Infinity)
    IN  Stored(GeoResolution * GeoResolution * GeoResolution, GeoResolution,
               Coords(GeoResolution), SequentialIndex, Value)

\* generateSDFParallel: the Z slices of worker i
SlicesPerWorkerFloor(r, numWorkers) == r \div numWorkers
SlicesPerWorker(r, numWorkers) == (r + numWorkers - 1) \div numWorkers
SliceStart(i, numWorkers) == i * SlicesPerWorker(GeoResolution, numWorkers)
\* a zEnd that is not held at the resolution
SliceEndUnclamped(i, numWorkers) ==
    SliceStart(i, numWorkers) + SlicesPerWorker(GeoResolution, numWorkers)
SliceEnd(i, numWorkers) ==
    Min(SliceStart(i, numWorkers) + SlicesPerWorker(GeoResolution, numWorkers),
        GeoResolution)
SliceWorkers(numWorkers) ==
    {i \in 0..(numWorkers - 1) : SliceStart(i, numWorkers) < GeoResolution}

\* the slice worker's onmessage: its own BVH, one query per voxel of its slices
SliceData(tris, zStart, zEnd) ==
    LET Index(x, y, z) ==
            (z - zStart) * (GeoResolution * GeoResolution) + y * GeoResolution + x
        Value(x, y, z) ==
            queryBVH(Some(buildBVH(tris, 0)), VoxelPoint(x, y, z), Infinity)
    IN  Stored((zEnd - zStart) * GeoResolution * GeoResolution, GeoResolution,
               zStart..(zEnd - 1), Index, Value)

\* the merge: finalData.set(data.subarray(srcOffset, srcOffset + sliceSize),
\* dstOffset) for every slice of every result
Merged(results) ==
    [i \in Voxels(GeoResolution) |->
       IF \E w \in DOMAIN results :
            /\ results[w] # None
            /\ i \div (GeoResolution * GeoResolution) >= results[w][1].zStart
            /\ i \div (GeoResolution * GeoResolution) < results[w][1].zEnd
       THEN LET w == CHOOSE w \in DOMAIN results :
                       /\ results[w] # None
                       /\ i \div (GeoResolution * GeoResolution) >= results[w][1].zStart
                       /\ i \div (GeoResolution * GeoResolution) < results[w][1].zEnd
            IN  results[w][1].data[i - results[w][1].zStart
                                         * (GeoResolution * GeoResolution)]
       ELSE Zero]

\* the shader's main over the dispatched invocations: 8 per workgroup and axis
WORKGROUP == 8
Invocations(r) == 0..(((r + WORKGROUP - 1) \div WORKGROUP) * WORKGROUP - 1)
RECURSIVE ShaderScan(_, _, _)
ShaderScan(tris, p, minDist) ==
    IF tris = <<>> THEN minDist
    ELSE ShaderScan(Tail(tris), p,
            IF Less(pointToTriangleDist(p, Head(tris)).dist, minDist)
            THEN pointToTriangleDist(p, Head(tris)).dist ELSE minDist)
ShaderData(tris) ==
    [i \in Voxels(GeoResolution) |->
       IF \E x, y, z \in Invocations(GeoResolution) :
            /\ x < GeoResolution /\ y < GeoResolution /\ z < GeoResolution
            /\ SequentialIndex(x, y, z) = i
       THEN LET c == CHOOSE c \in Coords(GeoResolution) \X Coords(GeoResolution)
                                  \X Coords(GeoResolution) :
                        SequentialIndex(c[1], c[2], c[3]) = i
            IN  ShaderScan(tris, VoxelPoint(c[1], c[2], c[3]), SHADER_FAR)
       ELSE Zero]

\* ---- the inputs: a mesh and either one query point or a worker count ----
\* a closed floor, two walls, a plate at half height and two slanted pieces
\* (every mesh has a triangle and no triangle is degenerate: generateSDFAsync
\* is given the geometry of a text that is never empty)
FloorA == Tri(0, 0, 0, 0, 4, 0, 4, 0, 0)
FloorB == Tri(4, 4, 0, 4, 0, 0, 0, 4, 0)
WallA == Tri(0, 0, 0, 4, 0, 0, 0, 0, 2)
WallB == Tri(4, 0, 0, 4, 0, 2, 0, 0, 2)
SideA == Tri(0, 4, 0, 0, 4, 2, 0, 0, 0)
SideB == Tri(0, 0, 2, 0, 0, 0, 0, 4, 2)
PlateA == Tri(0, 0, 2, 4, 0, 2, 0, 4, 2)
PlateB == Tri(4, 0, 2, 4, 4, 2, 0, 4, 2)
SlantA == Tri(1, 1, 3, 3, 1, 3, 2, 3, 4)
SlantB == Tri(4, 4, 0, 4, 2, 1, 2, 4, 1)
GeoMeshes ==
    {<<SlantA>>,
     <<PlateA, SlantB>>,
     <<SlantA, SlantB, PlateA, WallA, PlateB>>,
     <<PlateA, PlateB, WallA, WallB, SlantA, SlantB>>,
     <<FloorA, SlantA, WallA, SideA, PlateA, FloorB, SlantB, WallB, SideB, PlateB>>}
MaxGeoWorkers == 4
GeoPoints == {[x |-> x, y |-> y, z |-> z] : x \in 0..4, y \in 0..4, z \in 0..4}
GeoOrigin == [x |-> 0, y |-> 0, z |-> 0]
\* the depths and leaf sizes a tree is built with: the defaults and smaller ones
GeoDepths == {0, 1, 2, MAX_DEPTH}
GeoLeafSizes == {0, 1, MIN_TRIS}
GeoInputs ==
    {[study |-> "point", tris |-> m, p |-> p, workers |-> 1,
      maxDepth |-> MAX_DEPTH, minTris |-> MIN_TRIS] :
        m \in GeoMeshes, p \in GeoPoints}
    \cup {[study |-> "field", tris |-> m, p |-> GeoOrigin, workers |-> n,
           maxDepth |-> MAX_DEPTH, minTris |-> MIN_TRIS] :
        m \in GeoMeshes, n \in 1..MaxGeoWorkers}
    \cup {[study |-> "tree", tris |-> m, p |-> GeoOrigin, workers |-> 1,
           maxDepth |-> d, minTris |-> n] :
        m \in GeoMeshes, d \in GeoDepths, n \in GeoLeafSizes}
NoMeasure ==
    [dists |-> None, bvh |-> None, query |-> None, sequential |-> None,
     slices |-> [w \in 0..(MaxGeoWorkers - 1) |-> None], parallel |-> None,
     gpu |-> None]

GeoInit ==
    /\ initPc = "none"
    /\ frameDt = 0
    /\ Constructed
    /\ bounceChance = BOUNCE_CHANCE
    /\ kin = None
    /\ kout = NoOutputs
    /\ NoFieldFlow
    /\ NoPool
    /\ geoIn \in {Some(g) : g \in GeoInputs}
    /\ geoOut = Some(NoMeasure)
    /\ NoRender
    /\ NoIdb

GeoStudy(kind) == geoIn # None /\ geoOut # None /\ geoIn[1].study = kind
GeoRest ==
    UNCHANGED <<geoIn, systemVars, kernelVars, fieldVars, poolVars, renderVars, idbVars>>

\* pointToTriangleDist(px, py, pz, tri) for every triangle of the mesh
MeasureTriangles ==
    /\ GeoStudy("point")
    /\ geoOut[1].dists = None
    /\ geoOut' = Some([geoOut[1] EXCEPT !.dists =
           Some([i \in DOMAIN geoIn[1].tris |->
                    pointToTriangleDist(geoIn[1].p, geoIn[1].tris[i])])])
    /\ GeoRest

\* const bvh = buildBVH(triArray)
BuildTree ==
    /\ GeoStudy("point") \/ GeoStudy("tree")
    /\ geoOut[1].bvh = None
    /\ geoOut' = Some([geoOut[1] EXCEPT !.bvh =
           Some(buildBVHWith(geoIn[1].tris, 0, geoIn[1].maxDepth,
                             geoIn[1].minTris))])
    /\ GeoRest

\* queryBVH(bvh, px, py, pz, Infinity)
QueryTree ==
    /\ GeoStudy("point")
    /\ geoOut[1].bvh # None
    /\ geoOut[1].query = None
    /\ geoOut' = Some([geoOut[1] EXCEPT !.query =
           Some(queryBVH(geoOut[1].bvh, geoIn[1].p, Infinity))])
    /\ GeoRest

\* sdf-worker.js: onmessage runs generateSDF
SequentialField ==
    /\ GeoStudy("field")
    /\ geoOut[1].sequential = None
    /\ geoOut' = Some([geoOut[1] EXCEPT !.sequential = Some(generateSDF(geoIn[1].tris))])
    /\ GeoRest

\* sdf-worker-slice.js: worker i answers its zStart..zEnd
SliceWorker(i) ==
    /\ GeoStudy("field")
    /\ i \in SliceWorkers(geoIn[1].workers)
    /\ geoOut[1].slices[i] = None
    /\ geoOut' = Some([geoOut[1] EXCEPT !.slices[i] =
           Some([zStart |-> SliceStart(i, geoIn[1].workers),
                 zEnd |-> SliceEnd(i, geoIn[1].workers),
                 data |-> SliceData(geoIn[1].tris, SliceStart(i, geoIn[1].workers),
                                    SliceEnd(i, geoIn[1].workers))])])
    /\ GeoRest

\* generateSDFParallel: completed === numActiveWorkers, the slices are merged
MergeSlices ==
    /\ GeoStudy("field")
    /\ \A i \in SliceWorkers(geoIn[1].workers) : geoOut[1].slices[i] # None
    /\ geoOut[1].parallel = None
    /\ geoOut' = Some([geoOut[1] EXCEPT !.parallel = Some(Merged(geoOut[1].slices))])
    /\ GeoRest

\* sdf-gpu.js: the dispatch of main over the grid, then the read-back
ShaderField ==
    /\ GeoStudy("field")
    /\ geoOut[1].gpu = None
    /\ geoOut' = Some([geoOut[1] EXCEPT !.gpu = Some(ShaderData(geoIn[1].tris))])
    /\ GeoRest

GeoNext ==
    \/ MeasureTriangles
    \/ BuildTree
    \/ QueryTree
    \/ SequentialField
    \/ \E i \in 0..(MaxGeoWorkers - 1) : SliceWorker(i)
    \/ MergeSlices
    \/ ShaderField
GeoSpec == GeoInit /\ [][GeoNext]_vars

(***************************************************************************)
(* Properties.                                                             *)
(***************************************************************************)
\* particles admitted since the last reset that have not become INACTIVE
Live == Cardinality(ActiveBelow(store, count))

\* the store the first spawn after construction leaves, for its arguments
FirstSpawn(args) ==
    IF backendType = WEBGPU
    THEN Snapshot(GPUSpawn([i \in Slots |-> ZeroRow], 0, args),
                  Min(args.n, MaxParticles))
    ELSE LET r == CPUSpawn([i \in Slots |-> EmptyRow], 0, args)
         IN  Snapshot(r.store, r.count)

\* C1: in the worker backend a copyToBuffers that follows update never sees a
\* store in which some of the index ranges that update dispatched have been
\* advanced and others have not (update ends only when every task is done).
C1_NoPartialCopy == ~partialCopy

\* what every spawn step leaves alone (and most other steps do not)
SpawnFrame ==
    /\ drvPc' = drvPc
    /\ workerQueue' = workerQueue
    /\ lastReturn' = lastReturn
    /\ pendingUpdates' = pendingUpdates
    /\ highestActiveIndex' = highestActiveIndex
    /\ partialCopy' = partialCopy
    /\ lastOp' \in {"resetSpawn", "other"}
    /\ count' >= count

\* C2: count stays within 0..maxParticles in every backend; a spawn of n
\* particles with k slots free admits exactly min(n, k), writes the slots
\* count..count+min(n,k)-1 and no other slot, and is always enabled (no error).
C2_SpawnTruncates ==
    /\ count \in 0..MaxParticles
    /\ [][/\ count' \in 0..MaxParticles
          /\ DOMAIN store' = Slots
          /\ \A args \in SpawnArgs :
               (SpawnFrame /\ HybridSpawn(args)) =>
                 LET k == MaxParticles - count
                     m == Min(args.n, k)
                 IN  /\ count' = count + m
                     /\ \A i \in Slots :
                          (i < count \/ i >= count + m) => store'[i] = store[i]]_vars
C2_Witness ==
    /\ lastOp = "resetSpawn"
    /\ lastArgs # None
    /\ lastArgs[1].n > MaxParticles
    /\ count = MaxParticles

\* C3: init probes GPU, then workers, then single-threaded; the committed
\* backend is WEBGPU only if the GPU init returned true, WORKERS only if the
\* GPU stage failed and the worker init returned true, SINGLE_THREAD only if
\* both stages failed; exactly one backend is committed when init completes.
C3_ProbeOrder ==
    /\ workerInitResult # "none" => gpuInitResult \in {"unavailable", "false"}
    /\ initPc # "done" => backendType = NULL /\ backend = NULL
    /\ initPc = "done" =>
         \/ /\ backendType = WEBGPU
            /\ gpuInitResult = "true" /\ gpuCompute = "ready" /\ backend = NULL
         \/ /\ backendType = WORKERS
            /\ gpuInitResult \in {"unavailable", "false"}
            /\ workerInitResult = "true" /\ backend = "worker"
         \/ /\ backendType = SINGLE_THREAD
            /\ gpuInitResult \in {"unavailable", "false"}
            /\ workerInitResult \in {"unavailable", "threw"} /\ backend = "cpu"
C3_Witness ==
    /\ initPc = "done"
    /\ backendType = SINGLE_THREAD
    /\ gpuInitResult = "false"
    /\ workerInitResult = "threw"

\* C4: when a worker fails during initialisation, init falls through and
\* eventually completes with a backend committed.
C4_WorkerFailureFallsThrough ==
    (workerFailed # {}) ~> (initPc = "done" /\ backendType # NULL)

\* C5: once init has committed a backend, no spawn, update, copyToBuffers or
\* reset changes backendType or the backend objects, a thrown update included.
C5_BackendFixed ==
    [][initPc = "done" =>
         /\ initPc' = "done"
         /\ backendType' = backendType
         /\ backend' = backend
         /\ gpuCompute' = gpuCompute]_vars
C5_Witness ==
    /\ lastOp = "threw"
    /\ backendType = WEBGPU
    /\ count > 0

C7_InactiveHasSizeZero ==
    \A i \in Slots : store[i].state = INACTIVE => store[i].size = 0

\* C8: the count update returns is never negative and never exceeds the
\* particles admitted since the last reset minus those that became INACTIVE,
\* the ones deactivated by that same update included.
C8_ReturnBounded ==
    lastReturn # -1 => lastReturn >= 0 /\ lastReturn <= Live

\* C9: a particle spawned below DRIP_REMOVE_Y is INACTIVE with size 0 once the
\* first update after its spawn has processed it, whatever its velocity and dt.
C9_LowSpawnRemoved ==
    \A i \in Slots :
        i < count /\ life[i].low /\ life[i].age >= 1 =>
            store[i].state = INACTIVE /\ store[i].size = 0

\* C10: reset followed by a spawn leaves the store that the same spawn left as
\* the first spawn after construction: the same count, and below it the given
\* rows, FALLING with stick timer 0, whatever preceded the reset.
C10_ResetSpawnReproduces ==
    lastOp = "resetSpawn" =>
        /\ Snapshot(store, count) = FirstSpawn(lastArgs[1])
        /\ \A i \in 0..(count - 1) :
             /\ store[i] = lastArgs[1].row
             /\ store[i].state = FALLING /\ store[i].stickTime = 0

\* C11: with bounceChance = 1.0 a FALLING particle whose impact a backend
\* accepts is BOUNCING after that step in that backend, never STUCK, and is
\* deactivated in that step only below removal-Y or behind removal-Z.
C11_AlwaysBounces ==
    (kin # None /\ bounceChance = 1000 /\ kin[1].row.state = FALLING) =>
        \A b \in KernelBackends :
            (kout[b] # None /\ ImpactAccepted(b)) =>
                \/ kout[b][1].state = BOUNCING
                \/ /\ kout[b][1].state = INACTIVE
                   /\ \/ kout[b][1].posY < DRIP_REMOVE_Y
                      \/ kout[b][1].posZ < -10000

\* C12: in every backend countOnText returns the number of particles of the
\* store that are STUCK or SLIDING.
C12_CountOnTextExact ==
    initPc = "done" =>
        countOnText = Cardinality({i \in Slots : OnText(store[i].state)})

\* C13: an INACTIVE slot is reused by spawn: whenever fewer than maxParticles
\* particles are live, a spawn of one particle admits it, even when count has
\* reached maxParticles and no reset has happened.
C13_InactiveSlotReused ==
    (initPc = "done" /\ Live < MaxParticles) =>
        \A row \in SpawnRows : SpawnResult([row |-> row, n |-> 1]).count = count + 1

\* a slot in the index range of a task that has been posted to a worker and
\* has not completed
InFlight(i) ==
    \E w \in Workers : \E k \in 1..Len(workerQueue[w]) :
        workerQueue[w][k].startIdx <= i /\ i < workerQueue[w][k].endIdx

\* C14: in the worker backend spawn never writes a slot while a worker task
\* whose index range contains that slot is in flight.
C14_SpawnNeverRaces ==
    [][\A args \in SpawnArgs :
         (backendType = WORKERS /\ SpawnFrame /\ HybridSpawn(args)) =>
             \A i \in Slots : (i >= bcount /\ i < bcount') => ~InFlight(i)]_vars

\* C15: in the GPU backend, when the driver copies to the render buffers the
\* update of that frame has dispatched and its read-back has then been mapped,
\* in that order, no read-back is outstanding, and the host snapshot the copy
\* reads is the rows that dispatch produced; an update that dispatched nothing
\* leaves no snapshot to copy.
C15_CopyAfterReadBack ==
    /\ drvPc = "awaiting" => gpuStep.order = <<"dispatch">> /\ gpuPending = gpuStep.rows
    /\ (drvPc = "sync" /\ backendType = WEBGPU) =>
          /\ gpuPending = None
          /\ gpuParticleData = gpuStep.rows
          /\ gpuStep.rows # None => gpuStep.order = <<"dispatch", "mapped">>
          /\ gpuStep.rows = None => gpuStep.order = <<>>
C15_Witness ==
    /\ drvPc = "sync" /\ backendType = WEBGPU
    /\ gpuStep.order = <<"dispatch", "mapped">>
    /\ gpuParticleData # None
    /\ \E i \in DOMAIN gpuParticleData[1] : gpuParticleData[1][i] # store[i]

\* C20: for the same particle row, field, dt, time, configuration and random
\* draws, the single-threaded update, the worker's processParticles and the
\* GPU kernel return the same row.
C20_SameTransition ==
    (kin # None /\ bounceChance = BOUNCE_CHANCE) =>
        \A a, b \in KernelBackends :
            (kout[a] # None /\ kout[b] # None) => kout[a] = kout[b]

\* C16: every field the particle system has been given passed validateSDF,
\* whichever path produced it (cache, GPU, parallel workers, single worker,
\* synchronous fallback).
C16_FieldValidated ==
    particles # "none" => validateSDF(sdfData)

\* a strategy succeeded when it was available, did not throw and produced a
\* field that passes validation
Succeeded(a) == a.kind = "returned" /\ validateSDF(a.result)
StrategyOrder == <<"WebGPU", "Multi-Worker", "Single-Worker">>

\* C17: generateSDFAsync tries GPU, then parallel workers, then the single
\* worker; each strategy is tried only after all earlier ones failed; when it
\* returns, the field is that of the first strategy that succeeded and
\* lastSDFBackend names that strategy.
C17_StrategyOrder ==
    /\ Len(attempts) <= 3
    /\ \A i \in 1..Len(attempts) :
         /\ attempts[i].strategy = StrategyOrder[i]
         /\ i < Len(attempts) => ~Succeeded(attempts[i])
    /\ fieldPc = "generated" =>
         /\ Succeeded(attempts[Len(attempts)])
         /\ sdfData = attempts[Len(attempts)].result
         /\ lastSDFBackend = attempts[Len(attempts)].strategy

\* C18: a cached field is used only if it passes validation; once a cached
\* value has been discarded, the particle system is created from a
\* regenerated field that has been written back under the key.
C18_CacheValidated ==
    /\ cacheRead = "used" => validateSDF(sdfData)
    /\ (cacheRead = "discarded" /\ particles # "none") =>
         /\ cacheWrite # None
         /\ cacheWrite[1].field = sdfData[1]

\* C19: after a failed cache read (open error or get error) initialisation
\* goes on as after a miss, into generateSDFAsync and then to the hybrid
\* system, and a failed cache write never diverts it.
C19_ReadFailureIsMiss ==
    /\ cacheRead \in {"openError", "getError"} =>
         \/ fieldPc = "genGPU"
         \/ attempts # <<>>
    /\ (cacheWrite # None /\ cacheWrite[1].status = "failed") =>
         /\ fieldPc \in {"handOver", "init"}
         /\ particles # "plain"

\* C23: in every backend spawn returns the number of particles it admitted,
\* min(requested, maxParticles - count before the call).
C23_SpawnReturnsAdmitted ==
    initPc = "done" =>
        \A args \in SpawnArgs :
            SpawnReturn(args) = Some(Min(args.n, MaxParticles - count))

\* C24: whenever the driver copies to the render buffers, the value
\* copyToBuffers returns is at most count, greater than the index of every
\* particle that is not INACTIVE, and 0 when no particle is active.
C24_DrawRangeBound ==
    (initPc = "done" /\ drvPc = "sync") =>
        /\ copyToBuffers <= count
        /\ \A i \in ActiveBelow(store, count) : copyToBuffers > i
        /\ ActiveBelow(store, count) = {} => copyToBuffers = 0

\* C26: the ranges one update posts are at most workerCount in number, each
\* non-empty, contiguous from 0 to count (hence disjoint, with union
\* [0, count)), one per worker in worker order, and a worker whose range
\* would start at or beyond count is sent nothing.
C26_RangesPartition ==
    poolPosted # None =>
        LET n == poolPosted[1].count
            r == poolPosted[1].ranges
        IN  /\ n >= 1
            /\ Len(r) >= 1 /\ Len(r) <= poolSize
            /\ r[1].startIdx = 0
            /\ r[Len(r)].endIdx = n
            /\ \A k \in 1..Len(r) :
                 /\ r[k].startIdx < r[k].endIdx
                 /\ r[k].worker = k - 1
                 /\ k < Len(r) => r[k].endIdx = r[k + 1].startIdx
            /\ \A w \in 0..(poolSize - 1) :
                 w * PoolChunk(n, poolSize) >= n =>
                     \A k \in 1..Len(r) : r[k].worker # w
C26_Witness ==
    /\ poolPosted # None
    /\ Len(poolPosted[1].ranges) = 3
    /\ poolSize = 4
    /\ poolPosted[1].count = 5
    /\ poolPosted[1].ranges[3].endIdx - poolPosted[1].ranges[3].startIdx = 1

\* C27: no two tasks that can be running at the same time have overlapping
\* index ranges, also when they come from different dispatches.
C27_NoConcurrentOverlap ==
    \A v, w \in PoolRunning :
        v # w => ~Overlap(Head(poolQueue[v]), Head(poolQueue[w]))


\* what every reset step leaves alone (and no step of an update does)
ResetFrame ==
    /\ lastOp' = "reset"
    /\ count' = 0
    /\ drvPc' = drvPc
    /\ workerCursor' = workerCursor
    /\ gpuStep' = gpuStep

\* C28: update leaves every field of an INACTIVE slot as it is, in the three
\* backends: once a backend is in use, a slot that is INACTIVE changes only in
\* a step of spawn or reset.
C28_InactiveUntouched ==
    [][\A i \in Slots :
         (initPc = "done" /\ store[i].state = INACTIVE /\ store'[i] # store[i])
            => (count' > count \/ ResetFrame)]_vars


\* the step under study in the four kernels: the distance sampled at the
\* integrated position, each kernel's impact threshold and surface normal
KernelKinds == KernelBackends \cup {"earlier"}
KernelDist ==
    sampleSDF(FieldOf(kin[1].sdf), KernelMoved.posX, KernelMoved.posY,
              KernelMoved.posZ)
KernelThreshold(b) == IF b = "earlier" THEN EARLIER_IMPACT ELSE 200
KernelNormal(b) ==
    IF b = "gpu"
    THEN sdfGradientGPU(FieldOf(kin[1].sdf), KernelMoved.posX, KernelMoved.posY,
                        KernelMoved.posZ)
    ELSE sdfGradient(FieldOf(kin[1].sdf), KernelMoved.posX, KernelMoved.posY,
                     KernelMoved.posZ)
\* front facing, and within the front band
FrontGate(b) ==
    /\ KernelNormal(b).z > 500
    /\ KernelMoved.posZ > FieldOf(kin[1].sdf).bbox.max.z - 1500
SamePosition(p, q) == p.posX = q.posX /\ p.posY = q.posY /\ p.posZ = q.posZ

C29_Gated(b) ==
    (kin # None /\ kin[1].row.state = FALLING /\ kout[b] # None) =>
       /\ kout[b][1].state \in {STUCK, BOUNCING} =>
             (KernelDist < KernelThreshold(b) /\ FrontGate(b))
       /\ (KernelDist < KernelThreshold(b) /\ ~FrontGate(b)) =>
             (kout[b][1].state = FALLING /\ SamePosition(kout[b][1], KernelMoved))

\* C29: in every kernel a FALLING particle becomes STUCK or BOUNCING only in
\* a step where the distance sampled at its new position is below the impact
\* threshold, the normal is front facing and the particle is in the front
\* band; below the threshold with the gate closed it stays FALLING, not pushed.
C29_ImpactGated == \A b \in KernelKinds : C29_Gated(b)


\* the stick timer the step under study accumulates, and the duration the
\* particle's slide speed gives it
StickTimer == kin[1].row.stickTime + kin[1].dt
StickDuration(p) ==
    STICK_DURATION_MIN + Mul(p.slideSpeed, STICK_DURATION_MAX - STICK_DURATION_MIN)
AtRest(p) == p.velX = 0 /\ p.velY = 0 /\ p.velZ = 0

C30_Stuck(b) ==
    (kin # None /\ kin[1].row.state = STUCK /\ kout[b] # None) =>
       /\ StickTimer <= StickDuration(kin[1].row) =>
             (kout[b][1].state = STUCK /\ AtRest(kout[b][1]))
       /\ StickTimer > StickDuration(kin[1].row) =>
             (kout[b][1].state = DRIPPING
              /\ kout[b][1].velY = DRIP_INITIAL_VELOCITY)
       /\ kout[b][1].state # SLIDING

SegmentDist(px, py, pz, ex, ey, ez) ==
    IF Dot(px, py, pz, ex, ey, ez) <= 0 THEN Dist(px, py, pz, 1)
    ELSE IF Dot(px, py, pz, ex, ey, ez) >= Dot(ex, ey, ez, ex, ey, ez)
    THEN Dist(px - ex, py - ey, pz - ez, 1)
    ELSE Ratio(Dot(px, py, pz, px, py, pz) * Dot(ex, ey, ez, ex, ey, ez)
                 - Dot(px, py, pz, ex, ey, ez) * Dot(px, py, pz, ex, ey, ez),
               Dot(ex, ey, ez, ex, ey, ez))
CrossX(uy, uz, vy, vz) == uy * vz - uz * vy
\* (u x v) . n
Triple(ux, uy, uz, vx, vy, vz, nx, ny, nz) ==
    Dot(CrossX(uy, uz, vy, vz), CrossX(uz, ux, vz, vx), CrossX(ux, uy, vx, vy),
        nx, ny, nz)
Least(a, b) == IF Less(b, a) THEN b ELSE a

\* the distance from p to the triangle by definition: to the plane where the
\* foot of the perpendicular lies in the triangle, to the nearest of the three
\* sides elsewhere
ClosestDist(p, t) ==
    LET nx == CrossX(t.by - t.ay, t.bz - t.az, t.cy - t.ay, t.cz - t.az)
        ny == CrossX(t.bz - t.az, t.bx - t.ax, t.cz - t.az, t.cx - t.ax)
        nz == CrossX(t.bx - t.ax, t.by - t.ay, t.cx - t.ax, t.cy - t.ay)
        wa == Triple(t.bx - p.x, t.by - p.y, t.bz - p.z,
                     t.cx - p.x, t.cy - p.y, t.cz - p.z, nx, ny, nz)
        wb == Triple(t.cx - p.x, t.cy - p.y, t.cz - p.z,
                     t.ax - p.x, t.ay - p.y, t.az - p.z, nx, ny, nz)
        wc == Triple(t.ax - p.x, t.ay - p.y, t.az - p.z,
                     t.bx - p.x, t.by - p.y, t.bz - p.z, nx, ny, nz)
        h == Dot(p.x - t.ax, p.y - t.ay, p.z - t.az, nx, ny, nz)
    IN  IF wa >= 0 /\ wb >= 0 /\ wc >= 0
        THEN Ratio(h * h, Dot(nx, ny, nz, nx, ny, nz))
        ELSE Least(SegmentDist(p.x - t.ax, p.y - t.ay, p.z - t.az,
                               t.bx - t.ax, t.by - t.ay, t.bz - t.az),
             Least(SegmentDist(p.x - t.bx, p.y - t.by, p.z - t.bz,
                               t.cx - t.bx, t.cy - t.by, t.cz - t.bz),
                   SegmentDist(p.x - t.cx, p.y - t.cy, p.z - t.cz,
                               t.ax - t.cx, t.ay - t.cy, t.az - t.cz)))

\* the points a + (i * ab + j * ac) / SampleGrid of the triangle, as their
\* distance from p
SampleGrid == 4
SampleDist(p, t, i, j) ==
    Dist(SampleGrid * (p.x - t.ax) - i * (t.bx - t.ax) - j * (t.cx - t.ax),
         SampleGrid * (p.y - t.ay) - i * (t.by - t.ay) - j * (t.cy - t.ay),
         SampleGrid * (p.z - t.az) - i * (t.bz - t.az) - j * (t.cz - t.az),
         SampleGrid)
Measured == geoIn # None /\ geoOut # None /\ geoOut[1].dists # None
C25_Closest(i) ==
    /\ geoOut[1].dists[1][i].dist[1] >= 0
    /\ geoOut[1].dists[1][i].dist[2] > 0
    /\ geoOut[1].dists[1][i].dist = ClosestDist(geoIn[1].p, geoIn[1].tris[i])
    /\ \A a \in 0..SampleGrid : \A b \in 0..(SampleGrid - a) :
         ~Less(SampleDist(geoIn[1].p, geoIn[1].tris[i], a, b),
               geoOut[1].dists[1][i].dist)

\* C25: for every point and every non-degenerate triangle, the value of
\* pointToTriangleDist is not negative and is the distance from the point to
\* the closest point of the triangle: it equals the distance by definition
\* (plane or nearest side) and no point of the triangle is nearer.
C25_ClosestPoint ==
    Measured => \A i \in DOMAIN geoIn[1].tris : C25_Closest(i)

\* one point measured against a mesh in which it is nearest to the inside of
\* edge BC of one triangle, at a distance whose square is not an integer, and
\* above the face of another
C25_Witness ==
    /\ Measured
    /\ \E i \in DOMAIN geoIn[1].tris :
         /\ geoOut[1].dists[1][i].region = "BC"
         /\ geoOut[1].dists[1][i].dist[2] > 1
    /\ \E i \in DOMAIN geoIn[1].tris :
         /\ geoOut[1].dists[1][i].region = "face"
         /\ geoOut[1].dists[1][i].dist[1] > 0

\* the least of pointToTriangleDist over the triangles of the mesh
TriangleDists(p, tris) == {pointToTriangleDist(p, tris[i]).dist : i \in DOMAIN tris}
MinTriangleDist(p, tris) ==
    CHOOSE m \in TriangleDists(p, tris) :
        \A d \in TriangleDists(p, tris) : ~Less(d, m)
Queried == geoIn # None /\ geoOut # None /\ geoOut[1].query # None

\* C22: for every non-empty triangle set and every query point, queryBVH on
\* the tree of buildBVH, started with bestDist = Infinity, returns the minimum
\* of pointToTriangleDist over all the triangles.
C22_QueryIsMinimum ==
    Queried => geoOut[1].query[1] = MinTriangleDist(geoIn[1].p, geoIn[1].tris)

\* the child of an inner node that queryBVH visits first, and the other one
FirstChild(node, p) ==
    IF Less(ChildDist(node.left, p), ChildDist(node.right, p))
    THEN node.left ELSE node.right
SecondChild(node, p) ==
    IF Less(ChildDist(node.left, p), ChildDist(node.right, p))
    THEN node.right ELSE node.left
\* the second child is cut off by its box: nothing in it is examined
CutsSecond(node, p) ==
    /\ node.triangles = None
    /\ ~Less(ChildDist(SecondChild(node, p), p),
             queryBVH(FirstChild(node, p), p, Infinity))

\* a query on a tree of three levels that cut off the root's second child,
\* whose box the point lies outside of, and returned a positive distance
C22_Witness ==
    /\ Queried
    /\ geoOut[1].bvh[1].triangles = None
    /\ geoOut[1].bvh[1].left[1].triangles = None
    /\ CutsSecond(geoOut[1].bvh[1], geoIn[1].p)
    /\ geoOut[1].query[1][1] > 0
    /\ geoOut[1].query[1][2] > 0

FieldStudy == geoIn # None /\ geoOut # None /\ geoIn[1].study = "field"
GeoFields == {"sequential", "parallel", "gpu"}
\* the field has R^3 entries and holds at x + y*R + z*R^2 the least distance
\* from the centre of voxel (x, y, z) to the triangles
C21_MinimumAt(f, tris) ==
    /\ DOMAIN f = 0..(GeoResolution * GeoResolution * GeoResolution - 1)
    /\ \A x \in Coords(GeoResolution), y \in Coords(GeoResolution),
          z \in Coords(GeoResolution) :
         f[x + y * GeoResolution + z * GeoResolution * GeoResolution]
            = MinTriangleDist(VoxelPoint(x, y, z), tris)

RECURSIVE SubTris(_)
SubTris(node) ==
    IF node.triangles # None THEN node.triangles[1]
    ELSE (IF node.left = None THEN <<>> ELSE SubTris(node.left[1]))
         \o (IF node.right = None THEN <<>> ELSE SubTris(node.right[1]))
RECURSIVE LeafDepths(_, _)
LeafDepths(node, depth) ==
    IF node.triangles # None THEN {depth}
    ELSE (IF node.left = None THEN {} ELSE LeafDepths(node.left[1], depth + 1))
         \cup (IF node.right = None THEN {} ELSE LeafDepths(node.right[1], depth + 1))
Occurrences(t, s) == Cardinality({i \in DOMAIN s : s[i] = t})
SamePieces(s, t) ==
    /\ Len(s) = Len(t)
    /\ \A i \in DOMAIN s : Occurrences(s[i], s) = Occurrences(s[i], t)
InBox(node, t) ==
    /\ {t.ax, t.bx, t.cx} \subseteq node.minX..node.maxX
    /\ {t.ay, t.by, t.cy} \subseteq node.minY..node.maxY
    /\ {t.az, t.bz, t.cz} \subseteq node.minZ..node.maxZ
Extent(node, axis) ==
    IF axis = "x" THEN node.maxX - node.minX
    ELSE IF axis = "y" THEN node.maxY - node.minY
    ELSE node.maxZ - node.minZ
\* the two halves are the lower and the upper half of the order of the
\* centroids along a longest axis of the node
MedianSplit(node) ==
    /\ node.left # None
    /\ node.right # None
    /\ SubTris(node.left[1]) # <<>>
    /\ SubTris(node.right[1]) # <<>>
    /\ Len(SubTris(node.left[1])) = Len(SubTris(node)) \div 2
    /\ \E axis \in {"x", "y", "z"} :
         /\ \A other \in {"x", "y", "z"} : Extent(node, axis) >= Extent(node, other)
         /\ \A i \in DOMAIN SubTris(node.left[1]) :
              \A j \in DOMAIN SubTris(node.right[1]) :
                 Coord(SubTris(node.left[1])[i], axis)
                    <= Coord(SubTris(node.right[1])[j], axis)
RECURSIVE WellBuilt(_)
WellBuilt(node) ==
    /\ \A i \in DOMAIN SubTris(node) : InBox(node, SubTris(node)[i])
    /\ node.triangles = None =>
         /\ MedianSplit(node)
         /\ WellBuilt(node.left[1])
         /\ WellBuilt(node.right[1])
Built == geoIn # None /\ geoOut # None /\ geoOut[1].bvh # None

\* C34: buildBVH yields a tree whose leaves hold exactly the input triangles,
\* each in exactly one leaf; every inner node has two non-empty children, the
\* halves of the centroid order along the longest axis split at the median;
\* the box of every node contains the triangles of its subtree; and no leaf
\* is deeper than maxDepth.
C34_TreeWellBuilt ==
    Built =>
       /\ SamePieces(SubTris(geoOut[1].bvh[1]), geoIn[1].tris)
       /\ WellBuilt(geoOut[1].bvh[1])
       /\ \A d \in LeafDepths(geoOut[1].bvh[1], 0) : d <= geoIn[1].maxDepth

\* a tree of ten triangles built with maxDepth 2 and minTris 1: it has inner
\* nodes on two levels and a leaf at depth 2 that the depth limit kept from
\* being split
C34_Witness ==
    /\ Built
    /\ geoIn[1].maxDepth = 2
    /\ geoIn[1].minTris = 1
    /\ geoOut[1].bvh[1].triangles = None
    /\ geoOut[1].bvh[1].left[1].triangles = None
    /\ geoOut[1].bvh[1].left[1].right[1].triangles # None
    /\ Len(geoOut[1].bvh[1].left[1].right[1].triangles[1]) > geoIn[1].minTris
    /\ 2 \in LeafDepths(geoOut[1].bvh[1], 0)

\* the workers that have posted 'complete', and those among them whose range
\* holds slice z
Completed == {w \in DOMAIN geoOut[1].slices : geoOut[1].slices[w] # None}
Owners(z) ==
    {w \in Completed :
        geoOut[1].slices[w][1].zStart <= z /\ z < geoOut[1].slices[w][1].zEnd}
\* the ranges posted so far: none is empty or passes the resolution, and no
\* two overlap
RangesDisjoint ==
    \A w \in Completed :
       /\ 0 <= geoOut[1].slices[w][1].zStart
       /\ geoOut[1].slices[w][1].zStart < geoOut[1].slices[w][1].zEnd
       /\ geoOut[1].slices[w][1].zEnd <= GeoResolution
       /\ \A v \in Completed :
            v < w => geoOut[1].slices[v][1].zEnd <= geoOut[1].slices[w][1].zStart
\* the ranges at the merge: the first starts at 0, each next one where the one
\* before ends, the last ends at the resolution
RangesContiguous ==
    /\ Completed # {}
    /\ Completed = 0..SetMax(Completed)
    /\ geoOut[1].slices[0][1].zStart = 0
    /\ geoOut[1].slices[SetMax(Completed)][1].zEnd = GeoResolution
    /\ \A w \in Completed :
         w > 0 => geoOut[1].slices[w][1].zStart = geoOut[1].slices[w - 1][1].zEnd
\* every entry of the merged array comes from the one worker that owns its
\* slice, from offset (z - zStart) * R^2 + y * R + x of that worker's data
MergedFromOwners ==
    \A x \in Coords(GeoResolution), y \in Coords(GeoResolution),
       z \in Coords(GeoResolution) :
       /\ Cardinality(Owners(z)) = 1
       /\ \A w \in Owners(z) :
            geoOut[1].parallel[1][z * GeoResolution * GeoResolution
                                    + y * GeoResolution + x]
               = geoOut[1].slices[w][1].data[
                    (z - geoOut[1].slices[w][1].zStart)
                        * GeoResolution * GeoResolution + y * GeoResolution + x]

\* C33: the Z ranges generateSDFParallel hands out are contiguous, pairwise
\* disjoint and cover exactly [0, R); every one of the R^3 entries of the
\* merged array is written once, from the worker that owns its slice, at
\* z*R^2 + y*R + x; and the merge does not happen before every started worker
\* has posted 'complete'.
C33_SlicesPartition ==
    FieldStudy =>
       /\ RangesDisjoint
       /\ geoOut[1].parallel # None =>
            /\ RangesContiguous
            /\ DOMAIN geoOut[1].parallel[1]
                 = 0..(GeoResolution * GeoResolution * GeoResolution - 1)
            /\ MergedFromOwners

\* a merge for more workers than slices: three workers own one slice each, the
\* fourth was never started, and the merged field is not constant
C33_Witness ==
    /\ FieldStudy
    /\ geoIn[1].workers = 4
    /\ geoOut[1].parallel # None
    /\ Completed = {0, 1, 2}
    /\ \E i, j \in DOMAIN geoOut[1].parallel[1] :
         geoOut[1].parallel[1][i] # geoOut[1].parallel[1][j]

C32_Shrinks(b) ==
    (kin # None /\ kout[b] # None
        /\ Mul(kin[1].dt, DRIP_SHRINK_RATE) \in 0..1000) =>
       kout[b][1].size <= kin[1].row.size

\* C32: a particle's size never grows in an update step: with
\* 0 <= dt * DRIP_SHRINK_RATE <= 1 and the shipped bounce configuration its
\* size after the step is at most its size before the step, whichever
\* transition is taken, in the three kernels and in the earlier revision.
C32_SizeNeverGrows == \A b \in KernelKinds : C32_Shrinks(b)

\* a falling drop that bounced and came out smaller in the three kernels, in a
\* step with dt > 0
C32_Witness ==
    /\ kin # None
    /\ kin[1].row.state = FALLING
    /\ kin[1].row.size > 0
    /\ kin[1].dt > 0
    /\ \A b \in KernelBackends :
         /\ kout[b] # None
         /\ kout[b][1].state = BOUNCING
         /\ kout[b][1].size > 0
         /\ kout[b][1].size < kin[1].row.size

\* C38: in every reachable state of every backend, every slot at an index
\* >= count is INACTIVE (after construction and init, after spawn, after
\* reset, and after a reset issued while an update is in flight).
C38_BeyondCountInactive ==
    \A i \in Slots : i >= count => store[i].state = INACTIVE

LifeActive(b) == kout[b] # None /\ kout[b][1].state # INACTIVE
LifeOver(b) == kout[b] # None /\ kout[b][1].state = INACTIVE

\* C31: under repeated update calls with a fixed dt > 0, negative gravity and
\* finite stick durations, every particle that is not INACTIVE eventually
\* becomes INACTIVE, in every backend.
C31_EventuallyInactive == \A b \in KernelKinds : LifeActive(b) ~> LifeOver(b)

\* a drop that fell, stuck for a while, dripped and was removed
C31_Witness ==
    /\ kin # None
    /\ kin[1].row.state = FALLING
    /\ \E b \in KernelBackends :
         /\ LifeOver(b)
         /\ kout[b][1].stickTime > STICK_DURATION_MIN
         /\ kout[b][1].posY < DRIP_REMOVE_Y

\* a frame of animate that starts particles.update
StartsUpdate ==
    \E time \in TimeSet :
        \/ UpdateSingleThread(time)
        \/ UpdateWorkers(time)
        \/ UpdateGPU(time)

\* C36: the animation driver never has two update() calls in flight: while
\* an update is in progress (awaiting its result or about to copy) no frame
\* can start another update, no buffer copy is possible while the result is
\* awaited, the flag is down exactly when the driver is idle (so it was
\* cleared after the update resolved or threw, and the guard of a later frame
\* finds it down).
C36_OneUpdateInFlight ==
    /\ updateInProgress <=> drvPc # "idle"
    /\ updateInProgress => ~ENABLED StartsUpdate
    /\ drvPc = "awaiting" => ~ENABLED SyncParticleBuffers

\* a frame arrived (and reset the particles) while the update before it was
\* still awaiting its read-back
C36_Witness ==
    /\ drvPc = "awaiting"
    /\ updateInProgress
    /\ lastOp = "reset"
    /\ gpuPending # None

\* the rows copyToBuffers and countOnText read on the GPU backend that are
\* not the rows of the store: the host snapshot of the last read-back
StaleRows ==
    IF backendType = WEBGPU /\ gpuParticleData # None
    THEN {i \in Slots : /\ i < count
                        /\ i \in DOMAIN gpuParticleData[1]
                        /\ gpuParticleData[1][i] # store[i]
                        /\ gpuParticleData[1][i].state # INACTIVE}
    ELSE {}

\* C37: once reset has returned, and until the next update starts, what
\* copyToBuffers and countOnText read holds no particle spawned before the
\* reset: nothing is counted on the text (every particle spawned since is
\* FALLING) and no copied row differs from the slot it stands for.
C37_NothingBeforeReset ==
    (initPc = "done" /\ lastOp \in {"reset", "resetSpawn"}) =>
        /\ countOnText = 0
        /\ StaleRows = {}

\* C39: a copy that returns bound b leaves, for every i < b, particle i's
\* current position, state, stick timer, size and slide speed in the mesh
\* attributes, in every backend; an INACTIVE particle is not left there with
\* its earlier visible state and size.
C39_RenderIsCurrent ==
    [][render'.copies # render.copies =>
         \A i \in Slots :
            i < copyToBuffers => render'.rows[i] = RenderOf(store[i])]_vars

\* the rounding the three nested blends a*(1-t) + b*t can add up to
BlendRounding == 3

\* what C40 asks of the sample one backend has returned, the blend allowed to
\* leave the interval of the eight entries by `slack`
SampleSafe(out, slack) ==
    LET f == SampleField(kin[1].sdf)
    IN  IF f = None THEN out.value = SDF_FAR /\ out.reads = {}
        ELSE LET sdf == f[1]
                 r == sdf.resolution
                 cell == <<BaseCell(kin[1].x, sdf.bbox.min.x, sdf.stepX),
                           BaseCell(kin[1].y, sdf.bbox.min.y, sdf.stepY),
                           BaseCell(kin[1].z, sdf.bbox.min.z, sdf.stepZ)>>
                 entries == {sdf.data[i] : i \in out.reads \cap DOMAIN sdf.data}
             IN  IF \E a \in 1..3 : cell[a] < 0 \/ cell[a] > r - 2
                 THEN out.value = SDF_FAR /\ out.reads = {}
                 ELSE /\ Cardinality(out.reads) = 8
                      /\ out.reads \subseteq 0..(r * r * r - 1)
                      /\ out.value >= SetMin(entries) - slack
                      /\ out.value <= SetMax(entries) + slack

PruneSubject ==
    IF pruneState.written = None THEN pruneState.issued
    ELSE PutEntry(pruneState.issued, pruneState.written[1])

\* what a reader finds after pruneCache(n) has completed: at most n records,
\* the n with the largest timestamps of those the cache held (a record
\* without timestamp counting as oldest), and all of them when they were n or
\* fewer
Pruned(seen) ==
    /\ Cardinality(seen) <= pruneState.n
    /\ seen \subseteq PruneSubject
    /\ \A kept \in seen : \A gone \in PruneSubject \ seen : Stamp(gone) <= Stamp(kept)
    /\ Cardinality(PruneSubject) <= pruneState.n => seen = PruneSubject
    /\ Cardinality(PruneSubject) > pruneState.n => Cardinality(seen) = pruneState.n

====
